---- MODULE Spec2Model ----
(***************************************************************************)
(* Model of the data-catalog site: the BigQuery query / snippet generators *)
(* (site/src/scripts/bigquery.js), the Colab snippet template              *)
(* (colabTemplate.js) and the catalog lookups (catalog.js).                *)
(*                                                                         *)
(* Text is a sequence of one-character strings.  Large literal blocks of   *)
(* the Python templates that take no part in any substitution are single   *)
(* opaque symbols (PyHead, ColabHead, ...).  JavaScript values are records *)
(* [t |-> <type tag>, v |-> <payload>].                                    *)
(***************************************************************************)
EXTENDS Integers, Sequences, FiniteSets, TLC

VARIABLES call, result, catalogFile, now, timers, page, pending

\* The state of the build-time catalog functions and of the pure generators.
server == <<call, result, catalogFile>>

\* The state of a page in the browser: the clock, the timers set with
\* setTimeout, the elements and module variables of the page, and the
\* asynchronous operations that have not completed.
browser == <<now, timers, page, pending>>

vars == <<call, result, catalogFile, now, timers, page, pending>>

(***************************************************************************)
(* Bounds of the explored inputs.                                          *)
(***************************************************************************)
MaxCols == 3
MaxValueLen == 2
MaxProjects == 2
MaxDatasets == 2
MaxTables == 2
MaxSchemaCols == 2
MaxViews == 3
MaxSessionCalls == 2
MaxTicks == 5
MaxClicks == 2
MaxInitCalls == 2
MaxCheckboxes == 2
MaxGenerations == 3

(***************************************************************************)
(* JavaScript values.                                                      *)
(***************************************************************************)
JSUndefined == [t |-> "undefined", v |-> <<>>]
JSNull == [t |-> "null", v |-> <<>>]
JSString(s) == [t |-> "string", v |-> s]
JSArray(a) == [t |-> "array", v |-> a]

\* ToBoolean: undefined, null and the empty string are falsy; arrays,
\* objects and functions are truthy.
Truthy(x) ==
    CASE x.t = "undefined" -> FALSE
      [] x.t = "null" -> FALSE
      [] x.t = "string" -> Len(x.v) > 0
      [] OTHER -> TRUE

\* Outcome of a call: a returned value or a thrown error.
Return(v) == [ok |-> TRUE, value |-> v, error |-> "none"]
Throw(e) == [ok |-> FALSE, value |-> JSUndefined, error |-> e]
NoResult == [ok |-> FALSE, value |-> JSUndefined, error |-> "pending"]

(***************************************************************************)
(* Generic sequence helpers.                                               *)
(***************************************************************************)
RECURSIVE SeqsUpTo(_, _)
SeqsUpTo(S, n) ==
    IF n = 0 THEN {<<>>}
    ELSE LET shorter == SeqsUpTo(S, n - 1)
         IN shorter \cup {Append(s, x) : s \in {q \in shorter : Len(q) = n - 1}, x \in S}

Range(s) == {s[i] : i \in 1..Len(s)}

\* Array.prototype.includes on an array of strings.
Includes(arr, x) == \E i \in 1..Len(arr) : arr[i] = x

\* Index of the first occurrence of character c in text s, 0 when absent.
RECURSIVE IndexOfFrom(_, _, _)
IndexOfFrom(s, c, i) ==
    IF i > Len(s) THEN 0
    ELSE IF s[i] = c THEN i
    ELSE IndexOfFrom(s, c, i + 1)

IndexOf(s, c) == IndexOfFrom(s, c, 1)

\* String.prototype.split with a one-character separator.
RECURSIVE Split(_, _)
Split(s, c) ==
    LET i == IndexOf(s, c)
    IN IF i = 0 THEN <<s>>
       ELSE <<SubSeq(s, 1, i - 1)>> \o Split(SubSeq(s, i + 1, Len(s)), c)

\* Array.prototype.join.
RECURSIVE Join(_, _)
Join(parts, sep) ==
    IF Len(parts) = 0 THEN <<>>
    ELSE IF Len(parts) = 1 THEN parts[1]
    ELSE parts[1] \o sep \o Join(Tail(parts), sep)

(***************************************************************************)
(* Literal text of the templates.                                          *)
(***************************************************************************)
TxtSelect == <<"S", "E", "L", "E", "C", "T">>
\* The backtick character (not writable in a string literal of this language).
BackTick == "BACKTICK"

TxtFrom == <<"F", "R", "O", "M", " ", BackTick>>
TxtLimit100 == <<"L", "I", "M", "I", "T", " ", "1", "0", "0">>
TxtLimitParam == <<"L", "I", "M", "I", "T", " ", "@", "l", "i", "m", "i", "t">>
TxtColumnSep == <<",", "\n", " ", " ">>

(***************************************************************************)
(* generateQuery (bigquery.js).                                            *)
(***************************************************************************)
\* columnName.split(dot)[0]
ParentColumnName(columnName) == Split(columnName, ".")[1]

\* The filter callback: keep a column unless it is dotted and its parent
\* is itself an element of the array.
KeepColumn(columnName, columnNames) ==
    IF Includes(columnName, ".")
    THEN ~Includes(columnNames, ParentColumnName(columnName))
    ELSE TRUE

\* The variant that assumes a parent immediately precedes its children.
RECURSIVE FilterAdjacentFrom(_, _)
FilterAdjacentFrom(columnNames, i) ==
    IF i > Len(columnNames) THEN <<>>
    ELSE LET c == columnNames[i]
             keep == IF Includes(c, ".")
                     THEN ~(i > 1 /\ columnNames[i - 1] = ParentColumnName(c))
                     ELSE TRUE
         IN (IF keep THEN <<c>> ELSE <<>>) \o FilterAdjacentFrom(columnNames, i + 1)

filterNestedColumnsAdjacent(columnNames) == FilterAdjacentFrom(columnNames, 1)

\* The variant that takes the text before the last dot as the parent.
ParentBeforeLastDot(columnName) ==
    LET parts == Split(columnName, ".")
    IN Join(SubSeq(parts, 1, Len(parts) - 1), <<".">>)

filterNestedColumnsLastDot(columnNames) ==
    SelectSeq(columnNames,
              LAMBDA c : IF Includes(c, ".")
                         THEN ~Includes(columnNames, ParentBeforeLastDot(c))
                         ELSE TRUE)

\* The variant that removes every dotted column.
filterNestedColumnsNoDotted(columnNames) ==
    SelectSeq(columnNames, LAMBDA c : ~Includes(c, "."))

\* columnNames.filter(...)
filterNestedColumns(columnNames) ==
    SelectSeq(columnNames, LAMBDA c : KeepColumn(c, columnNames))

\* projectKey.datasetName.tableName
TableRef(projectKey, datasetName, tableName) ==
    projectKey \o <<".">> \o datasetName \o <<".">> \o tableName

QueryText(selectList, projectKey, datasetName, tableName) ==
    TxtSelect \o <<"\n", " ", " ">> \o selectList \o <<"\n">>
        \o TxtFrom \o TableRef(projectKey, datasetName, tableName) \o <<BackTick, "\n">>
        \o TxtLimit100

\* The variant whose guard tests only for a missing selection.
generateQueryNoLengthGuard(projectKey, datasetName, tableName, columnNames) ==
    IF ~Truthy(columnNames)
    THEN Return(JSString(QueryText(<<"*">>, projectKey, datasetName, tableName)))
    ELSE Return(JSString(QueryText(Join(filterNestedColumns(columnNames.v), TxtColumnSep),
                                   projectKey, datasetName, tableName)))

\* The variant whose guard reads .length without testing for null first.
generateQueryNoNullGuard(projectKey, datasetName, tableName, columnNames) ==
    IF columnNames.t \in {"null", "undefined"}
    THEN Throw("TypeError")
    ELSE IF Len(columnNames.v) = 0
    THEN Return(JSString(QueryText(<<"*">>, projectKey, datasetName, tableName)))
    ELSE Return(JSString(QueryText(Join(filterNestedColumns(columnNames.v), TxtColumnSep),
                                   projectKey, datasetName, tableName)))

\* The variant that joins the columns with a comma and a blank.
generateQueryJoinInline(projectKey, datasetName, tableName, columnNames) ==
    IF ~Truthy(columnNames) \/ Len(columnNames.v) = 0
    THEN Return(JSString(QueryText(<<"*">>, projectKey, datasetName, tableName)))
    ELSE Return(JSString(QueryText(Join(filterNestedColumns(columnNames.v), <<",", " ">>),
                                   projectKey, datasetName, tableName)))

\* The variant whose column branch leaves the dataset out of the reference.
generateQueryShortRef(projectKey, datasetName, tableName, columnNames) ==
    IF ~Truthy(columnNames) \/ Len(columnNames.v) = 0
    THEN Return(JSString(QueryText(<<"*">>, projectKey, datasetName, tableName)))
    ELSE Return(JSString(TxtSelect \o <<"\n", " ", " ">>
                         \o Join(filterNestedColumns(columnNames.v), TxtColumnSep)
                         \o <<"\n">> \o TxtFrom \o projectKey \o <<".">> \o tableName
                         \o <<BackTick, "\n">> \o TxtLimit100))

\* A falsy or empty selection gives SELECT *; otherwise .filter is called
\* on the selection, which throws a TypeError unless it is an array.
generateQuery(projectKey, datasetName, tableName, columnNames) ==
    IF ~Truthy(columnNames) \/ Len(columnNames.v) = 0
    THEN Return(JSString(QueryText(<<"*">>, projectKey, datasetName, tableName)))
    ELSE IF columnNames.t # "array"
    THEN Throw("TypeError")
    ELSE LET filteredColumns == filterNestedColumns(columnNames.v)
             formattedColumns == Join(filteredColumns, TxtColumnSep)
         IN Return(JSString(QueryText(formattedColumns, projectKey, datasetName,
                                      tableName)))

(***************************************************************************)
(* generatePythonRequest (bigquery.js).                                    *)
(***************************************************************************)
\* The character classes \s and \d.
WhiteSpace == {" ", "\n", "\t", "\r"}
Digits == {"0", "1", "2", "3", "4", "5", "6", "7", "8", "9"}

\* Length of the longest run of characters of one class starting at i.
RECURSIVE RunLength(_, _, _)
RunLength(s, i, class) ==
    IF i > Len(s) THEN 0
    ELSE IF s[i] \in class THEN 1 + RunLength(s, i + 1, class)
    ELSE 0

\* The word LIMIT under the i flag of the regular expression.
LimitWordAt(s, i) ==
    /\ i + 4 <= Len(s)
    /\ s[i] \in {"L", "l"}
    /\ s[i + 1] \in {"I", "i"}
    /\ s[i + 2] \in {"M", "m"}
    /\ s[i + 3] \in {"I", "i"}
    /\ s[i + 4] \in {"T", "t"}

\* Length of the match of /LIMIT\s+\d+/i that starts at i, 0 when none.
LimitMatchAt(s, i) ==
    IF ~LimitWordAt(s, i) THEN 0
    ELSE LET ws == RunLength(s, i + 5, WhiteSpace)
             dg == RunLength(s, i + 5 + ws, Digits)
         IN IF ws >= 1 /\ dg >= 1 THEN 5 + ws + dg ELSE 0

\* Start of the leftmost match at or after i, 0 when none.
RECURSIVE FirstLimitMatchFrom(_, _)
FirstLimitMatchFrom(s, i) ==
    IF i > Len(s) THEN 0
    ELSE IF LimitMatchAt(s, i) > 0 THEN i
    ELSE FirstLimitMatchFrom(s, i + 1)

\* query.replace(/LIMIT\s+\d+/i, 'LIMIT @limit'): the first match only.
ReplaceLimit(query) ==
    LET i == FirstLimitMatchFrom(query, 1)
    IN IF i = 0 THEN query
       ELSE SubSeq(query, 1, i - 1) \o TxtLimitParam
                \o SubSeq(query, i + LimitMatchAt(query, i), Len(query))

\* split on newline, prefix every line with four blanks, join again.
IndentLines(text) ==
    LET lines == Split(text, "\n")
    IN Join([k \in 1..Len(lines) |-> <<" ", " ", " ", " ">> \o lines[k]], <<"\n">>)

\* Literal blocks of the Python template (lines 199-240), one symbol each.
PyHead == "PY:imports, auth comment, PROJECT_ID = quote"
PyTableId == "PY:quote, newline, TABLE_ID = quote"
PyQueryOpen == "PY:quote, client, def run_query(limit=100), query = triple quote, newline"
PyTail == "PY:newline, triple quote, job_config with ScalarQueryParameter(limit, INT64, limit), run, main"

generatePythonRequest(projectKey, datasetName, tableName, selectedColumns) ==
    LET query == generateQuery(projectKey, datasetName, tableName, selectedColumns)
    IN IF ~query.ok THEN query
       ELSE LET parametrizedQuery == ReplaceLimit(query.value.v)
                indentedQuery == IndentLines(parametrizedQuery)
            IN Return(JSString(<<PyHead>> \o projectKey \o <<PyTableId>>
                               \o TableRef(projectKey, datasetName, tableName)
                               \o <<PyQueryOpen>> \o indentedQuery \o <<PyTail>>))

(***************************************************************************)
(* generateColabSnippet (colabTemplate.js).                                *)
(***************************************************************************)
\* The placeholders {PROJECT_ID} and {TABLE_ID}, one symbol each.
PhProject == "{PROJECT_ID}"
PhTable == "{TABLE_ID}"

\* PLACEHOLDERS: the global regular expression of each key.
PLACEHOLDERS == [project |-> PhProject, table |-> PhTable]

DEFAULT_SNIPPET_VALUES ==
    [projectId |-> JSString(<<"SEU_PROJETO_AQUI">>),
     tableId |-> JSString(<<"seu-projeto.seu_dataset.sua_tabela">>)]

\* Literal blocks of the Colab template, one symbol each.
ColabHead == "COLAB:imports, authenticate_user, PROJECT_ID = quote"
ColabTableId == "COLAB:quote, newline, TABLE_ID = quote"
ColabMid == "COLAB:quote, client, def query_table, query = f-string SELECT * FROM backtick"
ColabTail == "COLAB:backtick, LIMIT @limit, job_config, run, main"

SNIPPET_TEMPLATE ==
    <<ColabHead, PhProject, ColabTableId, PhTable, ColabMid, PhTable, ColabTail>>

\* GetSubstitution of String.prototype.replace for a pattern without
\* capture groups: $$ is a dollar, $& the matched text, $BACKTICK the text
\* before the match, $' the text after it; any other character is literal.
RECURSIVE GetSubstitution(_, _, _, _, _)
GetSubstitution(matched, str, position, replacement, i) ==
    IF i > Len(replacement) THEN <<>>
    ELSE IF replacement[i] = "$" /\ i < Len(replacement)
    THEN LET c == replacement[i + 1]
             rest == GetSubstitution(matched, str, position, replacement, i + 2)
         IN CASE c = "$" -> <<"$">> \o rest
              [] c = "&" -> matched \o rest
              [] c = BackTick -> SubSeq(str, 1, position - 1) \o rest
              [] c = "'" -> SubSeq(str, position + Len(matched), Len(str)) \o rest
              [] OTHER -> <<"$">> \o GetSubstitution(matched, str, position, replacement, i + 1)
    ELSE <<replacement[i]>> \o GetSubstitution(matched, str, position, replacement, i + 1)

\* str.replace(pattern, replacement) for a global one-symbol pattern: every
\* occurrence in str is replaced; inserted text is not scanned again.
RECURSIVE ReplaceAllFrom(_, _, _, _)
ReplaceAllFrom(str, pattern, replacement, position) ==
    IF position > Len(str) THEN <<>>
    ELSE IF str[position] = pattern
    THEN GetSubstitution(<<pattern>>, str, position, replacement, 1)
             \o ReplaceAllFrom(str, pattern, replacement, position + 1)
    ELSE <<str[position]>> \o ReplaceAllFrom(str, pattern, replacement, position + 1)

StringReplace(str, pattern, replacement) == ReplaceAllFrom(str, pattern, replacement, 1)

\* Object.entries(values).reduce(...): project first, then table, the second
\* replacement scanning the output of the first.
replaceTemplateValues(template, values) ==
    LET afterProject == StringReplace(template, PLACEHOLDERS.project, values.project.v)
    IN StringReplace(afterProject, PLACEHOLDERS.table, values.table.v)

generateColabSnippet(tableId, projectId) ==
    LET values == [project |-> IF Truthy(projectId) THEN projectId
                               ELSE DEFAULT_SNIPPET_VALUES.projectId,
                   table |-> IF Truthy(tableId) THEN tableId
                             ELSE DEFAULT_SNIPPET_VALUES.tableId]
    IN Return(JSString(replaceTemplateValues(SNIPPET_TEMPLATE, values)))

(***************************************************************************)
(* Catalog lookups (catalog.js).                                           *)
(***************************************************************************)
\* An object is the sequence of its own enumerable string-keyed properties
\* in Object.keys order.
JSObject(entries) == [t |-> "object", v |-> entries]
JSFunction == [t |-> "function", v |-> <<>>]

\* Property names every plain object inherits from Object.prototype.
ObjectPrototypeKeys ==
    {"constructor", "toString", "toLocaleString", "valueOf", "hasOwnProperty",
     "isPrototypeOf", "propertyIsEnumerable", "__proto__"}

HasOwn(obj, key) == \E i \in 1..Len(obj.v) : obj.v[i].key = key

\* obj[key]: an own property, else one inherited through the prototype
\* chain, else undefined.
Get(obj, key) ==
    IF obj.t = "object" /\ HasOwn(obj, key)
    THEN obj.v[CHOOSE i \in 1..Len(obj.v) : obj.v[i].key = key].value
    ELSE IF obj.t \in {"object", "function"} /\ key \in ObjectPrototypeKeys
    THEN (IF key = "__proto__" THEN JSObject(<<>>) ELSE JSFunction)
    ELSE JSUndefined

\* Object.keys(obj)
ObjectKeys(obj) == [i \in 1..Len(obj.v) |-> obj.v[i].key]

\* The variant that answers a failed read or parse with an empty catalog.
loadCatalogDataLenient(file) ==
    IF file.state = "ok" THEN Return(file.doc) ELSE Return(JSObject(<<>>))

\* fs.readFileSync and the two JSON.parse stages.  A file that holds the
\* document encoded once only gives an object at the first stage, which the
\* second stage converts to the text [object Object] and rejects.
loadCatalogData(file) ==
    CASE file.state = "absent" -> Throw("ENOENT")
      [] file.state = "invalid-outer" -> Throw("SyntaxError")
      [] file.state = "invalid-inner" -> Throw("SyntaxError")
      [] file.state = "single-encoded" -> Throw("SyntaxError")
      [] OTHER -> Return(file.doc)

getProjectKeys(file) ==
    LET catalog == loadCatalogData(file)
    IN IF ~catalog.ok THEN catalog ELSE Return(JSArray(ObjectKeys(catalog.value)))

NotFoundError == "Error: Dataset not found in any project"

\* The for-of loop: the first project whose catalog[projectKey][datasetName]
\* is truthy; reading a property of undefined throws a TypeError.
RECURSIVE FindDatasetFrom(_, _, _, _)
FindDatasetFrom(catalog, projectKeys, datasetName, i) ==
    IF i > Len(projectKeys) THEN Throw(NotFoundError)
    ELSE LET projectKey == projectKeys[i]
             project == Get(catalog, projectKey)
         IN IF project.t \in {"undefined", "null"} THEN Throw("TypeError")
            ELSE IF Truthy(Get(project, datasetName))
            THEN Return(JSObject(<<
                     [key |-> "name", value |-> JSString(<<datasetName>>)],
                     [key |-> "project", value |-> JSString(<<projectKey>>)],
                     [key |-> "description",
                      value |-> Get(Get(project, datasetName), "description")],
                     [key |-> "tables", value |-> Get(Get(project, datasetName), "tables")] >>))
            ELSE FindDatasetFrom(catalog, projectKeys, datasetName, i + 1)

\* getDatasetByName reads the file twice: once for the catalog and once
\* more inside getProjectKeys.
getDatasetByName(fileAtFirstRead, fileAtSecondRead, datasetName) ==
    LET catalog == loadCatalogData(fileAtFirstRead)
        projectKeys == getProjectKeys(fileAtSecondRead)
    IN IF ~catalog.ok THEN catalog
       ELSE IF ~projectKeys.ok THEN projectKeys
       ELSE FindDatasetFrom(catalog.value, projectKeys.value.v, datasetName, 1)

(***************************************************************************)
(* Catalog aggregates (catalog.js).                                        *)
(***************************************************************************)
\* Numbers: a finite number n, or one of the special values.
JSNumber(n) == [t |-> "number", v |-> <<>>, n |-> n]
JSNegInfinity == [t |-> "number", v |-> <<"-Infinity">>, n |-> 0]
JSNaN == [t |-> "number", v |-> <<"NaN">>, n |-> 0]

\* new Date(created_at).getTime() for the ISO timestamps of the explored
\* catalogs, in epoch milliseconds; any other text is an invalid date.
DateGetTime(createdAt) ==
    CASE createdAt = JSString(<<"1970-01-01T00:00:00Z">>) -> JSNumber(0)
      [] createdAt = JSString(<<"1970-01-02T00:00:00Z">>) -> JSNumber(86400000)
      [] createdAt = JSString(<<"1970-01-02T00:00:00+02:00">>) -> JSNumber(79200000)
      [] OTHER -> JSNaN

\* The variant that takes the smallest argument.
MathMin(values) ==
    IF Len(values) = 0 THEN JSNegInfinity
    ELSE IF \E i \in 1..Len(values) : values[i] = JSNaN THEN JSNaN
    ELSE JSNumber(CHOOSE m \in {values[i].n : i \in 1..Len(values)} :
                      \A i \in 1..Len(values) : m <= values[i].n)

\* Math.max(...values): -Infinity without arguments, NaN if any argument is
\* NaN, else the largest argument.
MathMax(values) ==
    IF Len(values) = 0 THEN JSNegInfinity
    ELSE IF \E i \in 1..Len(values) : values[i] = JSNaN THEN JSNaN
    ELSE JSNumber(CHOOSE m \in {values[i].n : i \in 1..Len(values)} :
                      \A i \in 1..Len(values) : values[i].n <= m)

\* The object pushed for one dataset of one project.
DatasetView(projectKey, datasetName, dataset) ==
    LET tables == Get(dataset, "tables")
    IN JSObject(<<
           [key |-> "name", value |-> JSString(<<datasetName>>)],
           [key |-> "project", value |-> JSString(<<projectKey>>)],
           [key |-> "description", value |-> Get(dataset, "description")],
           [key |-> "tableCount", value |-> JSNumber(Len(tables.v))],
           [key |-> "lastUpdated",
            value |-> MathMax([k \in 1..Len(tables.v) |->
                                  DateGetTime(Get(tables.v[k], "created_at"))])] >>)

\* The two nested forEach loops of getDatasets: projects in key order, the
\* datasets of each in key order.  Object.keys of undefined throws, and so
\* does reading .length of a missing tables property.
RECURSIVE CollectDatasetsFrom(_, _, _)
CollectDatasetsFrom(catalog, projectKeys, i) ==
    IF i > Len(projectKeys) THEN Return(JSArray(<<>>))
    ELSE LET projectKey == projectKeys[i]
             project == Get(catalog, projectKey)
             rest == CollectDatasetsFrom(catalog, projectKeys, i + 1)
         IN IF project.t # "object" THEN Throw("TypeError")
            ELSE IF \E j \in 1..Len(project.v) :
                        Get(project.v[j].value, "tables").t # "array"
            THEN Throw("TypeError")
            ELSE IF ~rest.ok THEN rest
            ELSE Return(JSArray(
                     [j \in 1..Len(project.v) |->
                         DatasetView(projectKey, project.v[j].key, project.v[j].value)]
                     \o rest.value.v))

\* getDatasets reads the file twice: once for the catalog and once more
\* inside getProjectKeys.
getDatasets(fileAtFirstRead, fileAtSecondRead) ==
    LET catalog == loadCatalogData(fileAtFirstRead)
        projectKeys == getProjectKeys(fileAtSecondRead)
    IN IF ~catalog.ok THEN catalog
       ELSE IF ~projectKeys.ok THEN projectKeys
       ELSE CollectDatasetsFrom(catalog.value, projectKeys.value.v, 1)

\* Set.prototype.add over a sequence of names: first occurrences, in order.
RECURSIVE AddAllToSet(_, _)
AddAllToSet(allNames, names) ==
    IF Len(names) = 0 THEN allNames
    ELSE AddAllToSet(IF Includes(allNames, names[1]) THEN allNames
                     ELSE Append(allNames, names[1]),
                     Tail(names))

\* The variant of the loops that pushes every name to an array.
RECURSIVE PushNamesFrom(_, _, _, _)
PushNamesFrom(catalog, projectKeys, i, allNames) ==
    IF i > Len(projectKeys) THEN Return(JSArray([k \in 1..Len(allNames) |-> JSString(<<allNames[k]>>)]))
    ELSE LET project == Get(catalog, projectKeys[i])
         IN IF project.t # "object" THEN Throw("TypeError")
            ELSE PushNamesFrom(catalog, projectKeys, i + 1, allNames \o ObjectKeys(project))

RECURSIVE CollectNamesFrom(_, _, _, _)
CollectNamesFrom(catalog, projectKeys, i, allNames) ==
    IF i > Len(projectKeys) THEN Return(JSArray([k \in 1..Len(allNames) |-> JSString(<<allNames[k]>>)]))
    ELSE LET project == Get(catalog, projectKeys[i])
         IN IF project.t # "object" THEN Throw("TypeError")
            ELSE CollectNamesFrom(catalog, projectKeys, i + 1,
                                  AddAllToSet(allNames, ObjectKeys(project)))

getDatasetNamesKeepingRepeats(fileAtFirstRead, fileAtSecondRead) ==
    LET catalog == loadCatalogData(fileAtFirstRead)
        projectKeys == getProjectKeys(fileAtSecondRead)
    IN IF ~catalog.ok THEN catalog
       ELSE IF ~projectKeys.ok THEN projectKeys
       ELSE PushNamesFrom(catalog.value, projectKeys.value.v, 1, <<>>)

getDatasetNames(fileAtFirstRead, fileAtSecondRead) ==
    LET catalog == loadCatalogData(fileAtFirstRead)
        projectKeys == getProjectKeys(fileAtSecondRead)
    IN IF ~catalog.ok THEN catalog
       ELSE IF ~projectKeys.ok THEN projectKeys
       ELSE CollectNamesFrom(catalog.value, projectKeys.value.v, 1, <<>>)

\* The variant that calls reduce without an initial value.
SumTableCountNoSeed(datasets) ==
    IF Len(datasets) = 0 THEN Throw("TypeError")
    ELSE IF Len(datasets) = 1 THEN Return(datasets[1])
    ELSE Return(JSString(<<"[object Object]", "table counts appended">>))

\* datasets.reduce((sum, dataset) => sum + dataset.tableCount, 0)
RECURSIVE SumTableCount(_, _, _)
SumTableCount(datasets, i, sum) ==
    IF i > Len(datasets) THEN sum
    ELSE SumTableCount(datasets, i + 1, sum + Get(datasets[i], "tableCount").n)

getTotalTableCountNoSeed(datasets) == SumTableCountNoSeed(datasets.v)

getTotalTableCount(datasets) == Return(JSNumber(SumTableCount(datasets.v, 1, 0)))

\* a.name.localeCompare(b.name) < 0 or = 0 for the names of the explored
\* catalogs: alphabetical order.
LocaleRank(name) ==
    CASE name = JSString(<<"constructor">>) -> 1
      [] name = JSString(<<"geo">>) -> 2
      [] name = JSString(<<"sales">>) -> 3
      [] OTHER -> 4

\* Array.prototype.sort with that comparator: a stable sort, written as
\* insertion of each element after the last element not greater than it.
RECURSIVE InsertByName(_, _)
InsertByName(sorted, x) ==
    IF Len(sorted) = 0 THEN <<x>>
    ELSE LET last == sorted[Len(sorted)]
         IN IF LocaleRank(Get(last, "name")) <= LocaleRank(Get(x, "name"))
            THEN Append(sorted, x)
            ELSE Append(InsertByName(SubSeq(sorted, 1, Len(sorted) - 1), x), last)

RECURSIVE SortByName(_, _)
SortByName(sorted, rest) ==
    IF Len(rest) = 0 THEN sorted
    ELSE SortByName(InsertByName(sorted, rest[1]), Tail(rest))

\* The variant that keeps the list of the previous call for the next one.
getDatasetsSortedMemoized(fileAtFirstRead, fileAtSecondRead) ==
    IF call.fn = "getDatasetsSorted" /\ result.ok THEN result
    ELSE LET datasets == getDatasets(fileAtFirstRead, fileAtSecondRead)
         IN IF ~datasets.ok THEN datasets
            ELSE Return(JSArray(SortByName(<<>>, datasets.value.v)))

getDatasetsSorted(fileAtFirstRead, fileAtSecondRead) ==
    LET datasets == getDatasets(fileAtFirstRead, fileAtSecondRead)
    IN IF ~datasets.ok THEN datasets
       ELSE Return(JSArray(SortByName(<<>>, datasets.value.v)))

(***************************************************************************)
(* Schema utilities (schema.js) and render data (rendering.js).            *)
(***************************************************************************)
TxtSemDescricao == JSString(<<"Sem descri", "c-cedilla", "a-tilde", "o">>)

\* The variant that substitutes the placeholder only for a missing
\* description.
FormattedColumnNullish(columnName, columnInfo) ==
    JSObject(<<
        [key |-> "name", value |-> JSString(<<columnName>>)],
        [key |-> "type", value |-> Get(columnInfo, "type")],
        [key |-> "description",
         value |-> IF Get(columnInfo, "description").t \in {"undefined", "null"}
                   THEN TxtSemDescricao
                   ELSE Get(columnInfo, "description")] >>)

\* The object built for one [columnName, columnInfo] entry.
FormattedColumn(columnName, columnInfo) ==
    JSObject(<<
        [key |-> "name", value |-> JSString(<<columnName>>)],
        [key |-> "type", value |-> Get(columnInfo, "type")],
        [key |-> "description",
         value |-> IF Truthy(Get(columnInfo, "description"))
                   THEN Get(columnInfo, "description")
                   ELSE TxtSemDescricao] >>)

\* Object.entries(schema).map(...)
formatSchema(schema) ==
    Return(JSArray([i \in 1..Len(schema.v) |->
                       FormattedColumn(schema.v[i].key, schema.v[i].value)]))

\* The variant that counts the tables.
getTotalColumnsCountingTables(tables) == Return(JSNumber(Len(tables.v)))

\* tables.reduce((sum, table) => sum + Object.keys(table.schema).length, 0)
RECURSIVE SumColumns(_, _, _)
SumColumns(tables, i, sum) ==
    IF i > Len(tables) THEN sum
    ELSE SumColumns(tables, i + 1, sum + Len(ObjectKeys(Get(tables[i], "schema"))))

getTotalColumns(tables) == Return(JSNumber(SumColumns(tables.v, 1, 0)))

\* new Date(created_at).toLocaleString('pt-BR') for the explored
\* timestamps, the process running in UTC.
DateToLocaleString(createdAt) ==
    CASE createdAt = JSString(<<"1970-01-01T00:00:00Z">>) -> JSString(<<"01/01/1970, 00:00:00">>)
      [] createdAt = JSString(<<"1970-01-02T00:00:00Z">>) -> JSString(<<"02/01/1970, 00:00:00">>)
      [] createdAt = JSString(<<"1970-01-02T00:00:00+02:00">>) -> JSString(<<"01/01/1970, 22:00:00">>)
      [] OTHER -> JSString(<<"Invalid Date">>)

\* The variant that counts the characters of the table name.
prepareTableForRenderNameLength(table) ==
    LET schemaEntries == formatSchema(Get(table, "schema")).value
    IN JSObject(<<
           [key |-> "name", value |-> Get(table, "name")],
           [key |-> "formattedDate", value |-> DateToLocaleString(Get(table, "created_at"))],
           [key |-> "columnCount", value |-> JSNumber(Len(Get(table, "name").v))],
           [key |-> "schemaEntries", value |-> schemaEntries] >>)

prepareTableForRender(table) ==
    LET schemaEntries == formatSchema(Get(table, "schema")).value
    IN JSObject(<<
           [key |-> "name", value |-> Get(table, "name")],
           [key |-> "formattedDate", value |-> DateToLocaleString(Get(table, "created_at"))],
           [key |-> "columnCount", value |-> JSNumber(Len(schemaEntries.v))],
           [key |-> "schemaEntries", value |-> schemaEntries] >>)

\* tables.map(table => prepareTableForRender(table))
prepareDatasetTablesForRender(tables) ==
    Return(JSArray([i \in 1..Len(tables.v) |-> prepareTableForRender(tables.v[i])]))

(***************************************************************************)
(* Statistics (stats.js).                                                  *)
(***************************************************************************)
StatItem(value, label) ==
    JSObject(<< [key |-> "value", value |-> value],
                [key |-> "label", value |-> JSString(<<label>>)] >>)

\* The two statistics of a dataset listing, with the labels of the page.
DatasetsStats(fileAtFirstRead, fileAtSecondRead, datasetsLabel, tablesLabel) ==
    LET datasets == getDatasets(fileAtFirstRead, fileAtSecondRead)
    IN IF ~datasets.ok THEN datasets
       ELSE LET total == getTotalTableCount(datasets.value)
            IN IF ~total.ok THEN total
               ELSE Return(JSArray(<<
                        StatItem(JSNumber(Len(datasets.value.v)), datasetsLabel),
                        StatItem(total.value, tablesLabel) >>))

getHomePageStats(fileAtFirstRead, fileAtSecondRead) ==
    DatasetsStats(fileAtFirstRead, fileAtSecondRead, "Conjuntos de Dados", "Tabelas")

getDatasetsPageStats(fileAtFirstRead, fileAtSecondRead) ==
    DatasetsStats(fileAtFirstRead, fileAtSecondRead, "Datasets", "Total de Tabelas")

\* The variant that reports the number of tables in both items.
getDatasetPageStatsTablesTwice(tables) ==
    Return(JSArray(<<
        StatItem(JSNumber(Len(tables.v)), IF Len(tables.v) # 1 THEN "Tabelas" ELSE "Tabela"),
        StatItem(JSNumber(Len(tables.v)), "Colunas Totais") >>))

getDatasetPageStats(tables) ==
    LET columns == getTotalColumns(tables)
    IN IF ~columns.ok THEN columns
       ELSE Return(JSArray(<<
                StatItem(JSNumber(Len(tables.v)),
                         IF Len(tables.v) # 1 THEN "Tabelas" ELSE "Tabela"),
                StatItem(columns.value, "Colunas Totais") >>))

(***************************************************************************)
(* Inputs.                                                                 *)
(***************************************************************************)
ColumnNameSet ==
    { <<"a">>, <<"a", ".", "b">>, <<"a", ".", "b", ".", "c">>,
      <<"b", ".", "c">>, <<"n">>, <<>>, <<".", "a">> }

ColumnSelections ==
    {JSNull, JSUndefined} \cup {JSArray(s) : s \in SeqsUpTo(ColumnNameSet, MaxCols)}

ProjectKeySet == { <<"r", "j">> }
DatasetNameSet == { <<"d", "s">> }
TableNameSet == { <<"t">>, <<"l", "i", "m", "i", "t", " ", "1">> }

QueryCalls ==
    [fn : {"generateQuery", "generatePythonRequest"}, projectKey : ProjectKeySet, datasetName : DatasetNameSet,
     tableName : TableNameSet, columnNames : ColumnSelections]

\* The filter on its own; pass counts the applications (the caller may feed
\* the output back in).
FilterCalls ==
    {[fn |-> "filterNestedColumns", pass |-> 1, columnNames |-> JSArray(q),
      original |-> JSArray(q)] : q \in SeqsUpTo(ColumnNameSet, MaxCols)}

\* Values of the Colab snippet arguments: absent, or a text over a small
\* alphabet that has the characters special to String.prototype.replace.
SnippetAlphabet == {"p", "-", "$", "&"}

SnippetValues == {JSUndefined} \cup {JSString(q) : q \in SeqsUpTo(SnippetAlphabet, MaxValueLen)}

ColabCalls == [fn : {"generateColabSnippet"}, tableId : SnippetValues, projectId : SnippetValues]

\* Catalog documents: up to MaxProjects projects in any key order, each with
\* up to MaxDatasets datasets.
CatalogProjectKeys == {"p1", "p2"}
CatalogDatasetNames == {"sales", "geo", "constructor"}
LookupNames == CatalogDatasetNames \cup {"missing", "toString"}

NoRepeat(q) == \A i, j \in 1..Len(q) : q[i] = q[j] => i = j

ProjectOrders == {q \in SeqsUpTo(CatalogProjectKeys, MaxProjects) : NoRepeat(q)}
DatasetLists == {q \in SeqsUpTo(CatalogDatasetNames, MaxDatasets) : NoRepeat(q)}

\* Column descriptions: text, absent, empty, null.
ColumnInfoSet ==
    { JSObject(<< [key |-> "type", value |-> JSString(<<ty>>)] >>) : ty \in {"STRING", "INTEGER"} }
    \cup { JSObject(<< [key |-> "type", value |-> JSString(<<ty>>)],
                      [key |-> "description", value |-> d] >>)
           : ty \in {"STRING", "INTEGER"},
             d \in {JSString(<<"text">>), JSString(<<>>), JSNull} }

ColumnKeys == <<"c1", "c2", "c3", "c4", "c5">>

ColumnInfoOf(i) ==
    CASE i = 1 -> JSObject(<< [key |-> "type", value |-> JSString(<<"STRING">>)],
                              [key |-> "description", value |-> JSString(<<"text">>)] >>)
      [] i = 2 -> JSObject(<< [key |-> "type", value |-> JSString(<<"INTEGER">>)] >>)
      [] i = 3 -> JSObject(<< [key |-> "type", value |-> JSString(<<"STRING">>)],
                              [key |-> "description", value |-> JSString(<<>>)] >>)
      [] OTHER -> JSObject(<< [key |-> "type", value |-> JSString(<<"INTEGER">>)],
                              [key |-> "description", value |-> JSString(<<"text">>)] >>)

SchemaOfSize(k) == JSObject([i \in 1..k |-> [key |-> ColumnKeys[i], value |-> ColumnInfoOf(i)]])

\* Schemas given to formatSchema: up to MaxSchemaCols columns, in any key
\* order, with any of the column descriptions.
SchemaKeyOrders == {q \in SeqsUpTo({"c1", "c2", "c3"}, MaxSchemaCols) : NoRepeat(q)}

SchemaSet ==
    UNION { { JSObject([i \in 1..Len(ko) |-> [key |-> ko[i], value |-> f[i]]])
              : f \in [1..Len(ko) -> ColumnInfoSet] }
            : ko \in SchemaKeyOrders }

Day1 == JSString(<<"1970-01-01T00:00:00Z">>)
Day2 == JSString(<<"1970-01-02T00:00:00Z">>)
Day2Plus2 == JSString(<<"1970-01-02T00:00:00+02:00">>)

Table(name, createdAt, columns) ==
    JSObject(<< [key |-> "name", value |-> JSString(<<name>>)],
                [key |-> "created_at", value |-> createdAt],
                [key |-> "schema", value |-> SchemaOfSize(columns)] >>)

TableSet == {Table(n, ts, k) : n \in {"t1", "t2"}, ts \in {Day1, Day2}, k \in {0, 3, 5}}

TableLists == {JSArray(q) : q \in SeqsUpTo(TableSet, MaxTables)}

\* The tables of each dataset of the catalog documents: none, one or two,
\* the latest first or last, with and without a zone offset.
TablesOf(p, n) ==
    CASE p = "p1" /\ n = "sales" -> <<Table("t1", Day2, 3), Table("t2", Day1, 5)>>
      [] p = "p1" /\ n = "geo" -> <<>>
      [] p = "p1" /\ n = "constructor" -> <<Table("t1", Day1, 0)>>
      [] p = "p2" /\ n = "sales" -> <<Table("t1", Day2Plus2, 3), Table("t2", Day2, 0)>>
      [] p = "p2" /\ n = "geo" -> <<Table("t1", Day1, 5)>>
      [] OTHER -> <<Table("t1", Day2, 3), Table("t2", Day2, 3)>>

DatasetRaw(p, n) ==
    JSObject(<< [key |-> "description", value |-> JSString(<<"description of", p, n>>)],
                [key |-> "tables", value |-> JSArray(TablesOf(p, n))] >>)

ProjectOf(p, names) ==
    JSObject([j \in 1..Len(names) |-> [key |-> names[j], value |-> DatasetRaw(p, names[j])]])

CatalogDocuments ==
    UNION { { JSObject([i \in 1..Len(po) |-> [key |-> po[i], value |-> ProjectOf(po[i], f[i])]])
              : f \in [1..Len(po) -> DatasetLists] }
            : po \in ProjectOrders }

CatalogFiles ==
    {[state |-> "ok", doc |-> d] : d \in CatalogDocuments}
        \cup {[state |-> st, doc |-> JSObject(<<>>)]
              : st \in {"absent", "invalid-outer", "invalid-inner", "single-encoded"}}

\* The file that is in place when no catalog lookup is made.
DefaultFile == [state |-> "ok", doc |-> JSObject(<<>>)]

LookupCalls == [fn : {"getDatasetByName"}, datasetName : LookupNames]

CatalogFunctions ==
    {"getProjectKeys", "getDatasets", "getDatasetNames", "getDatasetsSorted",
     "getHomePageStats", "getDatasetsPageStats"}

CatalogCalls == [fn : CatalogFunctions]

\* Dataset views given to getTotalTableCount: any sequence, repeats
\* included, of the views that getDatasets builds.
ViewSet ==
    {DatasetView(p, n, DatasetRaw(p, n)) : p \in CatalogProjectKeys, n \in CatalogDatasetNames}

TableCountCalls ==
    {[fn |-> "getTotalTableCount", datasets |-> JSArray(q)] : q \in SeqsUpTo(ViewSet, MaxViews)}

TableListCalls ==
    [fn : {"getTotalColumns", "prepareDatasetTablesForRender", "getDatasetPageStats"},
     tables : TableLists]

SchemaCalls == [fn : {"formatSchema"}, schema : SchemaSet]

Calls ==
    QueryCalls \cup FilterCalls \cup ColabCalls \cup LookupCalls \cup CatalogCalls
        \cup TableCountCalls \cup TableListCalls \cup SchemaCalls

UsesCatalog(c) == c.fn \in {"getDatasetByName"} \cup CatalogFunctions

(***************************************************************************)
(* State machine: a call is drawn, then executed once.                     *)
(***************************************************************************)
\* No page is open while the catalog functions and the generators run.
NoPage ==
    /\ now = 0
    /\ timers = <<>>
    /\ page = [kind |-> "none"]
    /\ pending = <<>>

Init ==
    /\ call \in Calls
    /\ result = NoResult
    /\ catalogFile \in (IF UsesCatalog(call) THEN CatalogFiles ELSE {DefaultFile})
    /\ NoPage

GenerateQuery ==
    /\ call.fn = "generateQuery"
    /\ result = NoResult
    /\ result' = generateQuery(call.projectKey, call.datasetName, call.tableName,
                               call.columnNames)
    /\ UNCHANGED <<call, catalogFile, browser>>

GeneratePythonRequest ==
    /\ call.fn = "generatePythonRequest"
    /\ result = NoResult
    /\ result' = generatePythonRequest(call.projectKey, call.datasetName, call.tableName,
                                       call.columnNames)
    /\ UNCHANGED <<call, catalogFile, browser>>

FilterNestedColumns ==
    /\ call.fn = "filterNestedColumns"
    /\ result = NoResult
    /\ result' = Return(JSArray(filterNestedColumns(call.columnNames.v)))
    /\ UNCHANGED <<call, catalogFile, browser>>

\* The caller applies the filter to the output of the first application.
FilterNestedColumnsAgain ==
    /\ call.fn = "filterNestedColumns"
    /\ call.pass = 1
    /\ result.ok
    /\ call' = [call EXCEPT !.pass = 2, !.columnNames = result.value]
    /\ result' = Return(JSArray(filterNestedColumns(result.value.v)))
    /\ UNCHANGED <<catalogFile, browser>>

GenerateColabSnippet ==
    /\ call.fn = "generateColabSnippet"
    /\ result = NoResult
    /\ result' = generateColabSnippet(call.tableId, call.projectId)
    /\ UNCHANGED <<call, catalogFile, browser>>

GetDatasetByName ==
    /\ call.fn = "getDatasetByName"
    /\ result = NoResult
    /\ result' = getDatasetByName(catalogFile, catalogFile, call.datasetName)
    /\ UNCHANGED <<call, catalogFile, browser>>

GetProjectKeys ==
    /\ call.fn = "getProjectKeys"
    /\ result = NoResult
    /\ result' = getProjectKeys(catalogFile)
    /\ UNCHANGED <<call, catalogFile, browser>>

GetDatasets ==
    /\ call.fn = "getDatasets"
    /\ result = NoResult
    /\ result' = getDatasets(catalogFile, catalogFile)
    /\ UNCHANGED <<call, catalogFile, browser>>

GetDatasetNames ==
    /\ call.fn = "getDatasetNames"
    /\ result = NoResult
    /\ result' = getDatasetNames(catalogFile, catalogFile)
    /\ UNCHANGED <<call, catalogFile, browser>>

GetDatasetsSorted ==
    /\ call.fn = "getDatasetsSorted"
    /\ result = NoResult
    /\ result' = getDatasetsSorted(catalogFile, catalogFile)
    /\ UNCHANGED <<call, catalogFile, browser>>

GetTotalTableCount ==
    /\ call.fn = "getTotalTableCount"
    /\ result = NoResult
    /\ result' = getTotalTableCount(call.datasets)
    /\ UNCHANGED <<call, catalogFile, browser>>

GetTotalColumns ==
    /\ call.fn = "getTotalColumns"
    /\ result = NoResult
    /\ result' = getTotalColumns(call.tables)
    /\ UNCHANGED <<call, catalogFile, browser>>

FormatSchema ==
    /\ call.fn = "formatSchema"
    /\ result = NoResult
    /\ result' = formatSchema(call.schema)
    /\ UNCHANGED <<call, catalogFile, browser>>

PrepareDatasetTablesForRender ==
    /\ call.fn = "prepareDatasetTablesForRender"
    /\ result = NoResult
    /\ result' = prepareDatasetTablesForRender(call.tables)
    /\ UNCHANGED <<call, catalogFile, browser>>

GetHomePageStats ==
    /\ call.fn = "getHomePageStats"
    /\ result = NoResult
    /\ result' = getHomePageStats(catalogFile, catalogFile)
    /\ UNCHANGED <<call, catalogFile, browser>>

GetDatasetsPageStats ==
    /\ call.fn = "getDatasetsPageStats"
    /\ result = NoResult
    /\ result' = getDatasetsPageStats(catalogFile, catalogFile)
    /\ UNCHANGED <<call, catalogFile, browser>>

GetDatasetPageStats ==
    /\ call.fn = "getDatasetPageStats"
    /\ result = NoResult
    /\ result' = getDatasetPageStats(call.tables)
    /\ UNCHANGED <<call, catalogFile, browser>>

Next ==
    \/ GenerateColabSnippet
    \/ GetDatasetByName
    \/ GetProjectKeys
    \/ GetDatasets
    \/ GetDatasetNames
    \/ GetDatasetsSorted
    \/ GetTotalTableCount
    \/ GetTotalColumns
    \/ FormatSchema
    \/ PrepareDatasetTablesForRender
    \/ GetHomePageStats
    \/ GetDatasetsPageStats
    \/ GetDatasetPageStats
    \/ GenerateQuery
    \/ GeneratePythonRequest
    \/ FilterNestedColumns
    \/ FilterNestedColumnsAgain

Spec == Init /\ [][Next]_vars

(***************************************************************************)
(* A process that makes several catalog lookups while the snapshot file    *)
(* may be replaced between them.  Each call records the snapshot it was    *)
(* made on and the snapshot of the call before it.                         *)
(***************************************************************************)
SessionFunctions ==
    {"getProjectKeys", "getDatasets", "getDatasetByName", "getDatasetNames", "getDatasetsSorted"}

SessionNames == {"sales", "geo", "missing"}

SessionFiles ==
    {f \in CatalogFiles :
        \/ f.state = "absent"
        \/ f.state = "ok" /\ Len(f.doc.v) = 0
        \/ /\ f.state = "ok"
           /\ Len(f.doc.v) = 2
           /\ \A i \in 1..2 : /\ Len(f.doc.v[i].value.v) = 2
                               /\ f.doc.v[i].value.v[1].key = "sales"}

InitSession ==
    /\ call = [fn |-> "none", calls |-> 0, snapshot |-> DefaultFile, before |-> DefaultFile]
    /\ result = NoResult
    /\ catalogFile \in SessionFiles
    /\ NoPage

\* The build writes a new catalog.json.
ReplaceSnapshot ==
    /\ catalogFile' \in SessionFiles \ {catalogFile}
    /\ UNCHANGED <<call, result, browser>>

Called(fn) ==
    [fn |-> fn, calls |-> call.calls + 1, snapshot |-> catalogFile, before |-> call.snapshot]

SessionGetProjectKeys ==
    /\ call.calls < MaxSessionCalls
    /\ call' = Called("getProjectKeys")
    /\ result' = getProjectKeys(catalogFile)
    /\ UNCHANGED <<catalogFile, browser>>

SessionGetDatasets ==
    /\ call.calls < MaxSessionCalls
    /\ call' = Called("getDatasets")
    /\ result' = getDatasets(catalogFile, catalogFile)
    /\ UNCHANGED <<catalogFile, browser>>

SessionGetDatasetByName ==
    /\ call.calls < MaxSessionCalls
    /\ \E name \in SessionNames :
           /\ call' = Called("getDatasetByName") @@ [datasetName |-> name]
           /\ result' = getDatasetByName(catalogFile, catalogFile, name)
    /\ UNCHANGED <<catalogFile, browser>>

SessionGetDatasetNames ==
    /\ call.calls < MaxSessionCalls
    /\ call' = Called("getDatasetNames")
    /\ result' = getDatasetNames(catalogFile, catalogFile)
    /\ UNCHANGED <<catalogFile, browser>>

SessionGetDatasetsSorted ==
    /\ call.calls < MaxSessionCalls
    /\ call' = Called("getDatasetsSorted")
    /\ result' = getDatasetsSorted(catalogFile, catalogFile)
    /\ UNCHANGED <<catalogFile, browser>>

NextSession ==
    \/ ReplaceSnapshot
    \/ SessionGetProjectKeys
    \/ SessionGetDatasets
    \/ SessionGetDatasetByName
    \/ SessionGetDatasetNames
    \/ SessionGetDatasetsSorted

SpecSession == InitSession /\ [][NextSession]_vars

(***************************************************************************)
(* One lookup while another process (the catalog generator) writes a new   *)
(* catalog.json.  getDatasets, getDatasetByName and getDatasetNames read   *)
(* the file in loadCatalogData() and once more in getProjectKeys(); the    *)
(* file system may serve a write between the two readFileSync calls.       *)
(***************************************************************************)
\* Well-formed snapshots with one dataset per project.
WrittenFiles ==
    {f \in CatalogFiles :
        /\ f.state = "ok"
        /\ \A i \in 1..Len(f.doc.v) : Len(f.doc.v[i].value.v) = 1}

TwoReadCalls ==
    [fn : {"getDatasets", "getDatasetNames"}, phase : {"called"}, written : {FALSE},
     snapshot : {DefaultFile}]
        \cup [fn : {"getDatasetByName"}, datasetName : SessionNames, phase : {"called"},
              written : {FALSE}, snapshot : {DefaultFile}]

InitTwoReads ==
    /\ call \in TwoReadCalls
    /\ result = NoResult
    /\ catalogFile \in WrittenFiles
    /\ NoPage

\* const catalog = loadCatalogData(): the first read.
ReadCatalog ==
    /\ call.phase = "called"
    /\ call' = [call EXCEPT !.phase = "loaded", !.snapshot = catalogFile]
    /\ UNCHANGED <<result, catalogFile, browser>>

\* The generator replaces catalog.json between the two reads.
WriteCatalogFile ==
    /\ call.phase = "loaded"
    /\ ~call.written
    /\ catalogFile' \in WrittenFiles \ {catalogFile}
    /\ call' = [call EXCEPT !.written = TRUE]
    /\ UNCHANGED <<result, browser>>

\* const projectKeys = getProjectKeys(): the second read, and the loops.
FinishGetDatasets ==
    /\ call.phase = "loaded"
    /\ call.fn = "getDatasets"
    /\ result' = getDatasets(call.snapshot, catalogFile)
    /\ call' = [call EXCEPT !.phase = "done"]
    /\ UNCHANGED <<catalogFile, browser>>

FinishGetDatasetNames ==
    /\ call.phase = "loaded"
    /\ call.fn = "getDatasetNames"
    /\ result' = getDatasetNames(call.snapshot, catalogFile)
    /\ call' = [call EXCEPT !.phase = "done"]
    /\ UNCHANGED <<catalogFile, browser>>

FinishGetDatasetByName ==
    /\ call.phase = "loaded"
    /\ call.fn = "getDatasetByName"
    /\ result' = getDatasetByName(call.snapshot, catalogFile, call.datasetName)
    /\ call' = [call EXCEPT !.phase = "done"]
    /\ UNCHANGED <<catalogFile, browser>>

NextTwoReads ==
    \/ ReadCatalog
    \/ WriteCatalogFile
    \/ FinishGetDatasets
    \/ FinishGetDatasetNames
    \/ FinishGetDatasetByName

SpecTwoReads == InitTwoReads /\ [][NextTwoReads]_vars

(***************************************************************************)
(* Pages in the browser.  Time is in milliseconds and advances in steps of *)
(* one second; a timer runs once its delay has passed, the timers that are *)
(* due running in the order of their due times, then of their creation.    *)
(***************************************************************************)
NoCall == [fn |-> "none"]

\* Nothing runs at build time while a page is explored.
NoServer ==
    /\ call = NoCall
    /\ result = NoResult
    /\ catalogFile = DefaultFile

DueTimers == {i \in 1..Len(timers) : timers[i].due <= now}

\* The timer that the event loop runs next.
NextTimer ==
    CHOOSE i \in DueTimers :
        \A j \in DueTimers : timers[i].due < timers[j].due \/ (timers[i].due = timers[j].due /\ i <= j)

WithoutTimer(i) == SubSeq(timers, 1, i - 1) \o SubSeq(timers, i + 1, Len(timers))

\* A second passes; no due timer and no clipboard write is left waiting
\* that long.
Tick ==
    /\ now < MaxTicks * 1000
    /\ DueTimers = {}
    /\ pending = <<>>
    /\ now' = now + 1000
    /\ UNCHANGED <<server, timers, page, pending>>

(***************************************************************************)
(* The copy button of a code preview (bigquery.js).                        *)
(***************************************************************************)
copyFeedbackDuration == 2000

\* The innerHTML given to the copy button by showCodePreview, and the
\* feedback of copyToClipboard.
CopyHTML == <<"CONFIG.icons.copy", " ", "Copiar">>
CopiedHTML == <<"CONFIG.icons.check", " ", "Copiado!">>

InitCopyButton ==
    /\ NoServer
    /\ now = 0
    /\ timers = <<>>
    /\ page = [kind |-> "copy-button", innerHTML |-> CopyHTML, clicks |-> 0, lastClick |-> 0,
               alerts |-> 0]
    /\ pending = <<>>

\* copyButton.onclick: copyToClipboard runs up to its await.
ClickCopy ==
    /\ page.clicks < MaxClicks
    /\ pending' = Append(pending, [op |-> "writeText"])
    /\ page' = [page EXCEPT !.clicks = @ + 1, !.lastClick = now]
    /\ UNCHANGED <<server, now, timers>>

\* navigator.clipboard.writeText resolves: the rest of the try block.
WriteTextResolves ==
    /\ pending # <<>>
    /\ pending' = Tail(pending)
    /\ LET originalHTML == page.innerHTML
       IN /\ page' = [page EXCEPT !.innerHTML = CopiedHTML]
          /\ timers' = Append(timers, [due |-> now + copyFeedbackDuration,
                                       originalHTML |-> originalHTML])
    /\ UNCHANGED <<server, now>>

\* navigator.clipboard.writeText rejects: the catch block.
WriteTextRejects ==
    /\ pending # <<>>
    /\ pending' = Tail(pending)
    /\ page' = [page EXCEPT !.alerts = @ + 1]
    /\ UNCHANGED <<server, now, timers>>

\* The callback given to setTimeout.
RestoreCopyButton ==
    /\ DueTimers # {}
    /\ page' = [page EXCEPT !.innerHTML = timers[NextTimer].originalHTML]
    /\ timers' = WithoutTimer(NextTimer)
    /\ UNCHANGED <<server, now, pending>>

NextCopyButton ==
    \/ ClickCopy
    \/ WriteTextResolves
    \/ WriteTextRejects
    \/ RestoreCopyButton
    \/ Tick

SpecCopyButton == InitCopyButton /\ [][NextCopyButton]_vars

(***************************************************************************)
(* Temporary messages of the Colab card (colab.js).                        *)
(***************************************************************************)
\* String.prototype.trim on a text of tokens.
RECURSIVE TrimStart(_)
TrimStart(text) ==
    IF Len(text) > 0 /\ text[1] \in WhiteSpace THEN TrimStart(Tail(text)) ELSE text

RECURSIVE TrimEnd(_)
TrimEnd(text) ==
    IF Len(text) > 0 /\ text[Len(text)] \in WhiteSpace
    THEN TrimEnd(SubSeq(text, 1, Len(text) - 1))
    ELSE text

Trim(text) == TrimEnd(TrimStart(text))

\* The messages of COLAB_CONFIG.
datasetCopiedMessage == <<"ID copiado!">>
datasetCopyErrorMessage == <<"Copie manualmente o ID da tabela.">>
codeCopiedMessage == <<"Codigo copiado! Cole no Colab e execute.">>
codeCopyErrorMessage == <<"Nao foi possivel copiar o codigo automaticamente.">>

\* The texts that the elements have in the page as served.
InitialTexts == { <<>>, <<"Copiar ID">>, <<"\n", " ", "Copiar ID", "\n">>, <<" ">> }

\* An element with its textContent, the data attribute that keeps its
\* original text, and the property that keeps its timer.  initialText,
\* lastCall and lastMessage record the history of the element.
ElementWith(text) ==
    [textContent |-> text, original |-> JSUndefined, timeout |-> JSUndefined,
     initialText |-> text, calls |-> 0, lastCall |-> 0, lastMessage |-> <<>>]

InitColabCard ==
    /\ NoServer
    /\ now = 0
    /\ timers = <<>>
    /\ pending = <<>>
    /\ \E labelText \in InitialTexts, feedbackText \in InitialTexts :
           page = [kind |-> "colab-card", nextTimer |-> 1,
                   label |-> ElementWith(labelText), feedback |-> ElementWith(feedbackText)]

\* clearTimeout(handle)
ClearTimeout(handle) == SelectSeq(timers, LAMBDA t : JSNumber(t.id) # handle)

\* The body shared by setTemporaryLabel (dataset.originalLabel,
\* _colabLabelTimeout) and updateFeedback (dataset.defaultMessage,
\* _colabTimeout): keep the original text unless one is kept, show the
\* message, cancel the timer of the element, set a new one.
ShowTemporarily(name, message, duration) ==
    LET element == page[name]
        original == IF ~Truthy(element.original)
                    THEN JSString(Trim(element.textContent))
                    ELSE element.original
        cleared == IF Truthy(element.timeout) THEN ClearTimeout(element.timeout) ELSE timers
    IN /\ page' = [page EXCEPT
                      ![name] = [element EXCEPT !.original = original,
                                                !.textContent = message,
                                                !.timeout = JSNumber(page.nextTimer),
                                                !.calls = @ + 1,
                                                !.lastCall = now,
                                                !.lastMessage = message],
                      !.nextTimer = @ + 1]
       /\ timers' = Append(cleared, [id |-> page.nextTimer, due |-> now + duration,
                                     element |-> name])

\* setTemporaryLabel(element, message) with the default duration.
SetTemporaryLabel ==
    /\ page.label.calls + page.feedback.calls < MaxClicks
    /\ \E message \in {datasetCopiedMessage, datasetCopyErrorMessage} :
           ShowTemporarily("label", message, 2000)
    /\ UNCHANGED <<server, now, pending>>

\* updateFeedback(button, message)
UpdateFeedback ==
    /\ page.label.calls + page.feedback.calls < MaxClicks
    /\ \E message \in {codeCopiedMessage, codeCopyErrorMessage} :
           ShowTemporarily("feedback", message, 4000)
    /\ UNCHANGED <<server, now, pending>>

\* The callbacks given to setTimeout: the kept text, or the empty text.
RestoreText ==
    /\ DueTimers # {}
    /\ LET name == timers[NextTimer].element
           kept == page[name].original
       IN page' = [page EXCEPT ![name].textContent = IF Truthy(kept) THEN kept.v ELSE <<>>]
    /\ timers' = WithoutTimer(NextTimer)
    /\ UNCHANGED <<server, now, pending>>

NextColabCard ==
    \/ SetTemporaryLabel
    \/ UpdateFeedback
    \/ RestoreText
    \/ Tick

SpecColabCard == InitColabCard /\ [][NextColabCard]_vars

(***************************************************************************)
(* The loader of the Lucide icons.  page.lucide is window.lucide,          *)
(* page.scripts counts the script elements appended to document.head, and  *)
(* pending holds the scripts whose download has not ended.                 *)
(***************************************************************************)
LUCIDE_CDN_URL == "https://unpkg.com/lucide@latest/dist/umd/lucide.js"

InitLucide ==
    /\ NoServer
    /\ now = 0
    /\ timers = <<>>
    /\ pending = <<>>
    /\ page = [kind |-> "lucide", lucide |-> FALSE, scripts |-> 0, createIcons |-> 0,
               domContentLoaded |-> FALSE, pageLoads |-> 0, calls |-> 0]

\* if (window.lucide) { window.lucide.createIcons(); return true; } return false;
createIconsIfLoaded(document) ==
    IF document.lucide
    THEN [document |-> [document EXCEPT !.createIcons = @ + 1], returned |-> TRUE]
    ELSE [document |-> document, returned |-> FALSE]

\* document.head.appendChild(script), the script starting to download.
loadLucideFromCDN(document, downloads) ==
    [document |-> [document EXCEPT !.scripts = @ + 1],
     downloads |-> Append(downloads, [src |-> LUCIDE_CDN_URL])]

\* if (!createIconsIfLoaded()) loadLucideFromCDN();
initLucideIcons(document, downloads) ==
    LET created == createIconsIfLoaded(document)
    IN IF created.returned
       THEN [document |-> created.document, downloads |-> downloads]
       ELSE loadLucideFromCDN(created.document, downloads)

\* document.addEventListener('DOMContentLoaded', initLucideIcons)
DOMContentLoaded ==
    /\ page.kind = "lucide"
    /\ ~page.domContentLoaded
    /\ LET after == initLucideIcons([page EXCEPT !.domContentLoaded = TRUE], pending)
       IN /\ page' = after.document
          /\ pending' = after.downloads
    /\ UNCHANGED <<server, now, timers>>

\* document.addEventListener('astro:page-load', initLucideIcons)
AstroPageLoad ==
    /\ page.kind = "lucide"
    /\ page.pageLoads < MaxInitCalls
    /\ LET after == initLucideIcons([page EXCEPT !.pageLoads = @ + 1], pending)
       IN /\ page' = after.document
          /\ pending' = after.downloads
    /\ UNCHANGED <<server, now, timers>>

\* window.initLucideIcons()
CallInitLucideIcons ==
    /\ page.kind = "lucide"
    /\ page.calls < MaxInitCalls
    /\ LET after == initLucideIcons([page EXCEPT !.calls = @ + 1], pending)
       IN /\ page' = after.document
          /\ pending' = after.downloads
    /\ UNCHANGED <<server, now, timers>>

\* A script ends its download and runs, which defines window.lucide; then
\* script.onload = createIconsIfLoaded.
ScriptLoads ==
    /\ page.kind = "lucide"
    /\ \E i \in 1..Len(pending) :
        /\ page' = createIconsIfLoaded([page EXCEPT !.lucide = TRUE]).document
        /\ pending' = SubSeq(pending, 1, i - 1) \o SubSeq(pending, i + 1, Len(pending))
    /\ UNCHANGED <<server, now, timers>>

\* A download fails: the script has no onerror handler.
ScriptFails ==
    /\ page.kind = "lucide"
    /\ \E i \in 1..Len(pending) :
        pending' = SubSeq(pending, 1, i - 1) \o SubSeq(pending, i + 1, Len(pending))
    /\ UNCHANGED <<server, now, timers, page>>

NextLucide ==
    \/ DOMContentLoaded
    \/ AstroPageLoad
    \/ CallInitLucideIcons
    \/ ScriptLoads
    \/ ScriptFails

SpecLucide == InitLucide /\ [][NextLucide]_vars

(***************************************************************************)
(* The column checkboxes of a dataset page.  Each table has its select-all *)
(* checkbox and one checkbox per column, in a row of the schema table;     *)
(* page.ready tells whether init has run.                                  *)
(***************************************************************************)
PageTables == {"t1", "t2"}

\* The row of a checked and of an unchecked column.
SelectedRow == {"bg-blue-50", "hover:bg-blue-100"}

PlainRow == {"hover:bg-gray-50"}

ColumnCheckboxes ==
    UNION {[1..n -> [checked : BOOLEAN, row : {SelectedRow, PlainRow}]] : n \in 0..MaxCheckboxes}

InitColumnsPage ==
    /\ NoServer
    /\ now = 0
    /\ timers = <<>>
    /\ pending = <<>>
    /\ \E tables \in [PageTables -> [selectAll : [checked : BOOLEAN, indeterminate : {FALSE}],
                                     columns : ColumnCheckboxes]] :
        page = [kind |-> "columns", ready |-> FALSE, tables |-> tables]

\* row.classList.add / remove by checkbox.checked
updateCheckboxVisuals(checkbox) ==
    IF checkbox.checked
    THEN [checkbox EXCEPT !.row = (@ \cup SelectedRow) \ PlainRow]
    ELSE [checkbox EXCEPT !.row = (@ \ SelectedRow) \cup PlainRow]

\* columnCheckboxes.forEach(checkbox => { checkbox.checked = selectAllCheckbox.checked; ... })
handleSelectAll(table) ==
    [table EXCEPT !.columns =
        [i \in DOMAIN table.columns |->
            updateCheckboxVisuals([table.columns[i] EXCEPT !.checked = table.selectAll.checked])]]

CheckedBoxes(table) == {i \in DOMAIN table.columns : table.columns[i].checked}

updateSelectAllState(table) ==
    IF Cardinality(CheckedBoxes(table)) = 0
    THEN [table EXCEPT !.selectAll = [checked |-> FALSE, indeterminate |-> FALSE]]
    ELSE IF Cardinality(CheckedBoxes(table)) = Len(table.columns)
    THEN [table EXCEPT !.selectAll = [checked |-> TRUE, indeterminate |-> FALSE]]
    ELSE [table EXCEPT !.selectAll = [checked |-> FALSE, indeterminate |-> TRUE]]

\* init(): the listeners, then the state of every select-all checkbox and
\* the row of every column checkbox.
InitColumns ==
    /\ page.kind = "columns"
    /\ ~page.ready
    /\ page' = [page EXCEPT !.ready = TRUE,
                            !.tables = [t \in PageTables |->
                                LET updated == updateSelectAllState(page.tables[t])
                                IN [updated EXCEPT !.columns =
                                       [i \in DOMAIN updated.columns |->
                                           updateCheckboxVisuals(updated.columns[i])]]]]
    /\ UNCHANGED <<server, now, timers, pending>>

\* The user toggles a column checkbox; the change listener then runs
\* updateCheckboxVisuals and updateSelectAllState.
ChangeColumnCheckbox ==
    /\ page.kind = "columns"
    /\ page.ready
    /\ \E t \in PageTables : \E i \in DOMAIN page.tables[t].columns :
        LET toggled == [page.tables[t] EXCEPT !.columns[i].checked = ~@]
            shown == [toggled EXCEPT !.columns[i] = updateCheckboxVisuals(@)]
        IN page' = [page EXCEPT !.tables[t] = updateSelectAllState(shown)]
    /\ UNCHANGED <<server, now, timers, pending>>

\* The user toggles a select-all checkbox, which the browser leaves not
\* indeterminate; the change listener then runs handleSelectAll and returns.
ChangeSelectAllCheckbox ==
    /\ page.kind = "columns"
    /\ page.ready
    /\ \E t \in PageTables :
        LET toggled == [page.tables[t] EXCEPT
                           !.selectAll = [checked |-> ~@.checked, indeterminate |-> FALSE]]
        IN page' = [page EXCEPT !.tables[t] = handleSelectAll(toggled)]
    /\ UNCHANGED <<server, now, timers, pending>>

NextColumns ==
    \/ InitColumns
    \/ ChangeColumnCheckbox
    \/ ChangeSelectAllCheckbox

SpecColumns == InitColumnsPage /\ [][NextColumns]_vars

(***************************************************************************)
(* The code preview of a table (bigquery.js).  page.windows are the        *)
(* elements of class code-preview in the container of the table, in        *)
(* document order; pending holds the calls of highlightCode that wait for  *)
(* highlighterPromise.  page.created counts the calls of                   *)
(* createHighlighterCore; page.awaited, page.latest, page.generations and  *)
(* page.overlapped record what has happened so far.                        *)
(***************************************************************************)
ButtonProject == <<"r", "j">>
ButtonDataset == <<"d", "s">>
ButtonTable == <<"t">>

\* The column checkboxes of the table, in document order, and the
\* selections that :checked can give.
PreviewColumns == << <<"a">>, <<"a", ".", "b">> >>

PreviewSelections ==
    { <<>>, <<PreviewColumns[1]>>, <<PreviewColumns[2]>>, PreviewColumns }

TitleQuery == "Query Gerada"
TitlePython == "Exemplo Python (BigQuery API)"

\* const highlighterPromise = createHighlighterCore({...}), when the module
\* is evaluated.
InitPreview ==
    /\ NoServer
    /\ now = 0
    /\ timers = <<>>
    /\ pending = <<>>
    /\ \E selected \in PreviewSelections :
        page = [kind |-> "preview", highlighter |-> "pending", created |-> 1, awaited |-> {},
                windows |-> <<>>, nextId |-> 1, selected |-> selected,
                generations |-> 0, latest |-> <<>>, overlapped |-> FALSE]

getSelectedColumns(document) == JSArray(document.selected)

\* A call of highlightCode that creates an engine of its own.
highlightCodeCreatingEngine(document, requests, window, code, lang) ==
    [document |-> [document EXCEPT !.created = @ + 1, !.awaited = @ \cup {document.created + 1}],
     requests |-> Append(requests, [window |-> window, code |-> code, lang |-> lang,
                                    awaits |-> document.created + 1])]

\* highlightCode up to its await: every call waits for the one
\* highlighterPromise.
highlightCode(document, requests, window, code, lang) ==
    [document |-> [document EXCEPT !.awaited = @ \cup {1}],
     requests |-> Append(requests, [window |-> window, code |-> code, lang |-> lang,
                                    awaits |-> 1])]

\* The markup that a call of highlightCode returns: that of codeToHtml, or
\* in the catch block the code with its &, < and > escaped.
EscapeHTML(code) ==
    [i \in 1..Len(code) |->
        IF code[i] = "&" THEN "&amp;" ELSE IF code[i] = "<" THEN "&lt;"
        ELSE IF code[i] = ">" THEN "&gt;" ELSE code[i]]

PlainHTML(code) == [markup |-> "pre", code |-> code]

HighlightedHTML(request, highlighter) ==
    IF highlighter = "ready"
    THEN [markup |-> "shiki", lang |-> request.lang, code |-> EscapeHTML(request.code)]
    ELSE [markup |-> "pre", code |-> EscapeHTML(request.code)]

\* The text that the markup shows.
TextContent(innerHTML) ==
    [i \in 1..Len(innerHTML.code) |->
        IF innerHTML.code[i] = "&amp;" THEN "&" ELSE IF innerHTML.code[i] = "&lt;" THEN "<"
        ELSE IF innerHTML.code[i] = "&gt;" THEN ">" ELSE innerHTML.code[i]]

\* showCodePreview that leaves the existing window in place.
showCodePreviewKeepingExisting(document, requests, code, lang, title) ==
    LET previewWindow == [id |-> document.nextId, title |-> title, copies |-> code,
                          innerHTML |-> PlainHTML(code)]
        highlighting == highlightCode(document, requests, previewWindow.id, code, lang)
    IN [document |-> [highlighting.document EXCEPT
                         !.windows = <<previewWindow>> \o document.windows,
                         !.nextId = @ + 1],
        requests |-> highlighting.requests]

\* showCodePreview: the first window of class code-preview in the container
\* is removed, and the new window is inserted after the buttons.
showCodePreview(document, requests, code, lang, title) ==
    LET kept == IF document.windows # <<>> THEN Tail(document.windows) ELSE <<>>
        previewWindow == [id |-> document.nextId, title |-> title, copies |-> code,
                          innerHTML |-> PlainHTML(code)]
        highlighting == highlightCode(document, requests, previewWindow.id, code, lang)
    IN [document |-> [highlighting.document EXCEPT
                         !.windows = <<previewWindow>> \o kept,
                         !.nextId = @ + 1],
        requests |-> highlighting.requests]

\* What a click on a button that generates code has done once its
\* handler returns.
Generated(code, lang, title) ==
    LET shown == showCodePreview(page, pending, code, lang, title)
    IN /\ page' = [shown.document EXCEPT !.generations = @ + 1, !.latest = code,
                                         !.overlapped = @ \/ pending # <<>>]
       /\ pending' = shown.requests

\* A click on [data-copy-query]: handleQueryGeneration.
ClickQueryButton ==
    /\ page.kind = "preview"
    /\ page.generations < MaxGenerations
    /\ LET query == generateQuery(ButtonProject, ButtonDataset, ButtonTable,
                                  getSelectedColumns(page))
       IN Generated(query.value.v, "sql", TitleQuery)
    /\ UNCHANGED <<server, now, timers>>

\* A click on [data-python-request]: handlePythonRequest.
ClickPythonButton ==
    /\ page.kind = "preview"
    /\ page.generations < MaxGenerations
    /\ LET pythonCode == generatePythonRequest(ButtonProject, ButtonDataset, ButtonTable,
                                               getSelectedColumns(page))
       IN Generated(pythonCode.value.v, "python", TitlePython)
    /\ UNCHANGED <<server, now, timers>>

\* closeButton.onclick = () => previewWindow.remove()
ClickCloseButton ==
    /\ page.kind = "preview"
    /\ \E i \in 1..Len(page.windows) :
        page' = [page EXCEPT !.windows = SubSeq(@, 1, i - 1) \o SubSeq(@, i + 1, Len(@))]
    /\ UNCHANGED <<server, now, timers, pending>>

\* The user checks or unchecks column checkboxes of the table.
ChangeSelection ==
    /\ page.kind = "preview"
    /\ \E selected \in PreviewSelections \ {page.selected} :
        page' = [page EXCEPT !.selected = selected]
    /\ UNCHANGED <<server, now, timers, pending>>

\* highlighterPromise is fulfilled, or rejected when the theme or a
\* language fails to load.
HighlighterResolves ==
    /\ page.kind = "preview"
    /\ page.highlighter = "pending"
    /\ page' = [page EXCEPT !.highlighter = "ready"]
    /\ UNCHANGED <<server, now, timers, pending>>

HighlighterRejects ==
    /\ page.kind = "preview"
    /\ page.highlighter = "pending"
    /\ page' = [page EXCEPT !.highlighter = "failed"]
    /\ UNCHANGED <<server, now, timers, pending>>

\* The code container that the callback of a request writes to.
codeContainerDisplayed(document, request) ==
    IF document.windows # <<>> THEN document.windows[1].id ELSE request.window

\* The callback writes to the codeContainer made by the same call of
\* showCodePreview.
codeContainerOf(document, request) == request.window

\* A call of highlightCode goes on after its await, and the callback given
\* to then sets codeContainer.innerHTML; a container of a window that has
\* been removed is no longer in the document.  The calls that wait may go
\* on in any order here; the browser takes them in the order of the calls.
HighlightCompletes ==
    /\ page.kind = "preview"
    /\ page.highlighter # "pending"
    /\ \E r \in 1..Len(pending) :
        LET request == pending[r]
            container == codeContainerOf(page, request)
        IN /\ page' = [page EXCEPT !.windows =
                          [i \in DOMAIN page.windows |->
                              IF page.windows[i].id = container
                              THEN [page.windows[i] EXCEPT
                                       !.innerHTML = HighlightedHTML(request, page.highlighter)]
                              ELSE page.windows[i]]]
           /\ pending' = SubSeq(pending, 1, r - 1) \o SubSeq(pending, r + 1, Len(pending))
    /\ UNCHANGED <<server, now, timers>>

NextPreview ==
    \/ ClickQueryButton
    \/ ClickPythonButton
    \/ ClickCloseButton
    \/ ChangeSelection
    \/ HighlighterResolves
    \/ HighlighterRejects
    \/ HighlightCompletes

SpecPreview == InitPreview /\ [][NextPreview]_vars

(***************************************************************************)
(* Properties.                                                             *)
(***************************************************************************)
HasDot(c) == \E i \in 1..Len(c) : c[i] = "."

FirstDot(c) == CHOOSE i \in 1..Len(c) : c[i] = "." /\ \A j \in 1..(i - 1) : c[j] # "."

TextBeforeFirstDot(c) == SubSeq(c, 1, FirstDot(c) - 1)

RemovedByRule(c, cols) == HasDot(c) /\ TextBeforeFirstDot(c) \in Range(cols)

SurvivingColumns(cols) == SelectSeq(cols, LAMBDA c : ~RemovedByRule(c, cols))

EndsWith(text, suffix) ==
    /\ Len(text) >= Len(suffix)
    /\ SubSeq(text, Len(text) - Len(suffix) + 1, Len(text)) = suffix

FromLine(c) ==
    <<"F", "R", "O", "M", " ", BackTick>> \o c.projectKey \o <<".">> \o c.datasetName
        \o <<".">> \o c.tableName \o <<BackTick>>

Limit100Line == <<"L", "I", "M", "I", "T", " ", "1", "0", "0">>

EmptySelection(c) == c.columnNames.t \in {"null", "undefined"} \/ Len(c.columnNames.v) = 0

Returned(f) == call.fn = f /\ result # NoResult

\* C1: the filter removes a column if and only if it contains a dot and the
\* text before its first dot is an element of the input; the survivors keep
\* their relative order ([a, a.b, n] gives [a, n]; [a.b, n] is unchanged).
C1_NestedFilterRule ==
    (Returned("filterNestedColumns") /\ call.pass = 1) =>
        /\ result = Return(JSArray(SurvivingColumns(call.columnNames.v)))
        /\ call.columnNames.v = << <<"a">>, <<"a", ".", "b">>, <<"n">> >>
              => result.value.v = << <<"a">>, <<"n">> >>
        /\ call.columnNames.v = << <<"a", ".", "b">>, <<"n">> >>
              => result.value.v = call.columnNames.v

C1_Witness ==
    /\ Returned("filterNestedColumns") /\ call.pass = 1
    /\ call.columnNames.v = << <<"a">>, <<"a", ".", "b">>, <<"b", ".", "c">> >>
    /\ result.value.v = << <<"a">>, <<"b", ".", "c">> >>

\* C2: the filter is idempotent: applied to its own output it returns that
\* output.
C2_FilterIdempotent ==
    (Returned("filterNestedColumns") /\ call.pass = 2) =>
        (result.ok /\ result.value = call.columnNames)

C2_Witness ==
    /\ Returned("filterNestedColumns") /\ call.pass = 2
    /\ Len(call.columnNames.v) < Len(call.original.v)
    /\ Len(result.value.v) > 1

\* C3: with an empty or absent selection generateQuery returns exactly
\* SELECT, newline, two blanks and *, newline, the FROM line, newline,
\* LIMIT 100.
C3_SelectStarText ==
    (Returned("generateQuery") /\ EmptySelection(call)) =>
        result = Return(JSString(
            <<"S", "E", "L", "E", "C", "T", "\n", " ", " ", "*", "\n">>
                \o FromLine(call) \o <<"\n">> \o Limit100Line))

C3_Witness ==
    /\ Returned("generateQuery")
    /\ call.columnNames = JSArray(<<>>)
    /\ result.ok

\* C4: for every table reference and every selection the text returned by
\* generateQuery ends with the line FROM `project.dataset.table` followed by
\* the final line LIMIT 100.
C4_FixedFromAndLimit ==
    Returned("generateQuery") =>
        /\ result.ok
        /\ EndsWith(result.value.v, <<"\n">> \o FromLine(call) \o <<"\n">> \o Limit100Line)

C4_Witness ==
    /\ Returned("generateQuery")
    /\ call.columnNames.t = "array" /\ Len(call.columnNames.v) = 2
    /\ result.ok

\* C5: with a non-empty selection the lines between SELECT and FROM are the
\* surviving columns in input order, one per line, indented by two blanks,
\* every line but the last ending with a comma.
C5_ColumnLines ==
    (Returned("generateQuery") /\ ~EmptySelection(call)) =>
        LET kept == SurvivingColumns(call.columnNames.v)
            n == Len(kept)
        IN /\ result.ok
           /\ Split(result.value.v, "\n") =
                  << <<"S", "E", "L", "E", "C", "T">> >>
                  \o [i \in 1..n |-> <<" ", " ">> \o kept[i]
                                        \o (IF i < n THEN <<",">> ELSE <<>>)]
                  \o << FromLine(call), Limit100Line >>

C5_Witness ==
    /\ Returned("generateQuery")
    /\ call.columnNames.v = << <<"a">>, <<"a", ".", "b">>, <<"n">> >>
    /\ result.ok
    /\ Len(Split(result.value.v, "\n")) = 5

\* Text s occurs in text t.
Contains(t, s) == \E i \in 0..(Len(t) - Len(s)) : SubSeq(t, i + 1, i + Len(s)) = s

\* C6: for string names and a selection that is an array of strings, empty
\* or absent, generateQuery and generatePythonRequest return a text and
\* throw nothing; an empty or absent selection gives SELECT *.
C6_GenerationNeverFails ==
    (Returned("generateQuery") \/ Returned("generatePythonRequest")) =>
        /\ result.ok
        /\ result.value.t = "string"
        /\ EmptySelection(call) =>
              \/ Contains(result.value.v, <<"S", "E", "L", "E", "C", "T", "\n", " ", " ", "*", "\n">>)
              \/ Contains(result.value.v,
                          <<"S", "E", "L", "E", "C", "T", "\n", " ", " ", " ", " ", " ", " ", "*", "\n">>)

C6_Witness ==
    /\ Returned("generatePythonRequest")
    /\ call.columnNames = JSNull
    /\ result.ok

\* The text between the block that opens the query string and the block
\* that closes it.
EmbeddedQuery(snippet) ==
    LET open == CHOOSE i \in 1..Len(snippet) : snippet[i] = PyQueryOpen
        close == CHOOSE i \in 1..Len(snippet) : snippet[i] = PyTail
    IN SubSeq(snippet, open + 1, close - 1)

\* The text with its last nine characters, LIMIT 100, replaced.
WithTrailingLimitReplaced(query) ==
    SubSeq(query, 1, Len(query) - Len(Limit100Line))
        \o <<"L", "I", "M", "I", "T", " ", "@", "l", "i", "m", "i", "t">>

\* Every line of the text prefixed with four blanks.
RECURSIVE IndentedBy4(_)
IndentedBy4(text) ==
    LET i == IF \E k \in 1..Len(text) : text[k] = "\n"
             THEN CHOOSE k \in 1..Len(text) : text[k] = "\n" /\ \A j \in 1..(k - 1) : text[j] # "\n"
             ELSE 0
    IN IF i = 0 THEN <<" ", " ", " ", " ">> \o text
       ELSE <<" ", " ", " ", " ">> \o SubSeq(text, 1, i) \o IndentedBy4(SubSeq(text, i + 1, Len(text)))

\* C7: the query embedded in the Python snippet is the text of generateQuery
\* for the same arguments with its terminating LIMIT 100 replaced by
\* LIMIT @limit and nothing else changed but the 4-blank indent.
C7_TrailingLimitParameterized ==
    Returned("generatePythonRequest") =>
        /\ result.ok
        /\ EmbeddedQuery(result.value.v) =
              IndentedBy4(WithTrailingLimitReplaced(
                  generateQuery(call.projectKey, call.datasetName, call.tableName,
                                call.columnNames).value.v))
        /\ ~EndsWith(EmbeddedQuery(result.value.v), Limit100Line)

\* The value a snippet argument stands for: itself, or the default when it
\* is absent or empty.
SuppliedOr(default, x) == IF x.t = "string" /\ Len(x.v) > 0 THEN x.v ELSE default

\* C8: for every projectId and tableId the Colab snippet has no placeholder
\* left; PROJECT_ID is assigned the supplied projectId (SEU_PROJETO_AQUI when
\* absent or empty) and TABLE_ID the supplied tableId (the default table
\* when absent or empty), the supplied values inserted verbatim.
C8_PlaceholdersSubstitutedVerbatim ==
    Returned("generateColabSnippet") =>
        LET project == SuppliedOr(<<"SEU_PROJETO_AQUI">>, call.projectId)
            table == SuppliedOr(<<"seu-projeto.seu_dataset.sua_tabela">>, call.tableId)
        IN /\ result.ok
           /\ result.value.v =
                  <<ColabHead>> \o project \o <<ColabTableId>> \o table
                      \o <<ColabMid>> \o table \o <<ColabTail>>
           /\ \A i \in 1..Len(result.value.v) : result.value.v[i] \notin {PhProject, PhTable}

\* The positions of the projects of the document that have the dataset as
\* an own key.
ProjectsWithDataset(doc, name) ==
    {i \in 1..Len(doc.v) : \E j \in 1..Len(doc.v[i].value.v) : doc.v[i].value.v[j].key = name}

OwnDataset(doc, i, name) ==
    LET project == doc.v[i].value
    IN project.v[CHOOSE j \in 1..Len(project.v) : project.v[j].key = name].value

OwnField(obj, key) == obj.v[CHOOSE j \in 1..Len(obj.v) : obj.v[j].key = key].value

Min(S) == CHOOSE x \in S : \A y \in S : x <= y

\* C9: when the name is a dataset of at least one project, getDatasetByName
\* returns the dataset of the first project in key order that has it, with
\* that project's key, description and tables; a later project with the
\* same name is never returned.
C9_FirstProjectWins ==
    (/\ Returned("getDatasetByName")
     /\ catalogFile.state = "ok"
     /\ ProjectsWithDataset(catalogFile.doc, call.datasetName) # {}) =>
        LET first == Min(ProjectsWithDataset(catalogFile.doc, call.datasetName))
            dataset == OwnDataset(catalogFile.doc, first, call.datasetName)
        IN result = Return(JSObject(<<
               [key |-> "name", value |-> JSString(<<call.datasetName>>)],
               [key |-> "project", value |-> JSString(<<catalogFile.doc.v[first].key>>)],
               [key |-> "description", value |-> OwnField(dataset, "description")],
               [key |-> "tables", value |-> OwnField(dataset, "tables")] >>))

\* C10: for every name that is a dataset key of no project, getDatasetByName
\* raises the not-found error and returns no object, in particular none
\* with a name but without description or tables.
C10_MissingNameRaisesNotFound ==
    (/\ Returned("getDatasetByName")
     /\ catalogFile.state = "ok"
     /\ ProjectsWithDataset(catalogFile.doc, call.datasetName) = {}) =>
        (~result.ok /\ result.error = NotFoundError)

(***************************************************************************)
(* Catalog aggregates.                                                     *)
(***************************************************************************)
\* The dataset names that are keys of some project of the document.
NamesOfDocument(doc) ==
    UNION { {doc.v[i].value.v[j].key : j \in 1..Len(doc.v[i].value.v)} : i \in 1..Len(doc.v) }

\* r is the list of the dataset names of the document, each once.
IsDatasetNamesOf(doc, r) ==
    /\ r.ok
    /\ r.value.t = "array"
    /\ {r.value.v[k] : k \in 1..Len(r.value.v)} = {JSString(<<n>>) : n \in NamesOfDocument(doc)}
    /\ NoRepeat(r.value.v)

\* C11: for a well-formed catalog document getDatasetNames returns exactly
\* the dataset names that occur under some project key, each exactly once,
\* also when a name occurs under several projects.
C11_DatasetNamesEachOnce ==
    (Returned("getDatasetNames") /\ catalogFile.state = "ok") =>
        IsDatasetNamesOf(catalogFile.doc, result)

\* getDatasetNames has returned for a document where two projects have a
\* dataset of the same name.
C11_Witness ==
    /\ Returned("getDatasetNames")
    /\ catalogFile.state = "ok"
    /\ \E n \in CatalogDatasetNames : Cardinality(ProjectsWithDataset(catalogFile.doc, n)) = 2
    /\ result.ok

\* The number of datasets of the projects before project i.
RECURSIVE DatasetsBefore(_, _)
DatasetsBefore(doc, i) ==
    IF i <= 1 THEN 0 ELSE DatasetsBefore(doc, i - 1) + Len(doc.v[i - 1].value.v)

\* Epoch milliseconds of the ISO-8601 timestamps of the documents.
EpochMillis(createdAt) ==
    CASE createdAt = <<"1970-01-01T00:00:00Z">> -> 0
      [] createdAt = <<"1970-01-02T00:00:00Z">> -> 24 * 60 * 60 * 1000
      [] createdAt = <<"1970-01-02T00:00:00+02:00">> -> 22 * 60 * 60 * 1000

LatestCreation(tables) ==
    CHOOSE m \in {EpochMillis(OwnField(tables[k], "created_at").v) : k \in 1..Len(tables)} :
        \A k \in 1..Len(tables) : EpochMillis(OwnField(tables[k], "created_at").v) <= m

\* entry is the view of dataset j of project i of the document.
IsViewOf(doc, i, j, entry) ==
    LET dataset == doc.v[i].value.v[j].value
        tables == OwnField(dataset, "tables").v
    IN /\ entry.t = "object"
       /\ ObjectKeys(entry) = <<"name", "project", "description", "tableCount", "lastUpdated">>
       /\ OwnField(entry, "name") = JSString(<<doc.v[i].value.v[j].key>>)
       /\ OwnField(entry, "project") = JSString(<<doc.v[i].key>>)
       /\ OwnField(entry, "description") = OwnField(dataset, "description")
       /\ OwnField(entry, "tableCount") = JSNumber(Len(tables))
       /\ Len(tables) > 0 => OwnField(entry, "lastUpdated") = JSNumber(LatestCreation(tables))

\* r is the list of the views of the datasets of the document, in project
\* order and then dataset order.
IsDatasetsOf(doc, r) ==
    /\ r.ok
    /\ r.value.t = "array"
    /\ Len(r.value.v) = DatasetsBefore(doc, Len(doc.v) + 1)
    /\ \A i \in 1..Len(doc.v) : \A j \in 1..Len(doc.v[i].value.v) :
           IsViewOf(doc, i, j, r.value.v[DatasetsBefore(doc, i) + j])

\* C12: getDatasets returns exactly one entry per (project, dataset) pair,
\* every project included, in project order and then dataset order; each
\* entry carries the project key, the description, tableCount equal to the
\* number of tables and, for a dataset that has tables, lastUpdated equal to
\* the largest created_at of its tables in epoch milliseconds.
C12_DatasetsFlattenedInOrder ==
    (Returned("getDatasets") /\ catalogFile.state = "ok") =>
        IsDatasetsOf(catalogFile.doc, result)

\* getDatasets has returned for two projects with two datasets each, where
\* the latest table of a dataset is not its last one.
C12_Witness ==
    /\ Returned("getDatasets")
    /\ catalogFile.state = "ok"
    /\ Len(catalogFile.doc.v) = 2
    /\ \A i \in 1..2 : Len(catalogFile.doc.v[i].value.v) = 2
    /\ \E i \in 1..2 : catalogFile.doc.v[i].key = "p1" /\ catalogFile.doc.v[i].value.v[1].key = "sales"
    /\ result.ok
    /\ Len(result.value.v) = 4

\* The datasets of the document that have no table, as positions in the
\* list of getDatasets.
EmptyDatasetPositions(doc) ==
    UNION { {DatasetsBefore(doc, i) + j : j \in {k \in 1..Len(doc.v[i].value.v) :
                 Len(OwnField(doc.v[i].value.v[k].value, "tables").v) = 0}}
            : i \in 1..Len(doc.v) }

\* C13: for a dataset with zero tables getDatasets either fails with an
\* empty-aggregate error or gives the entry the sentinel epoch zero or null
\* as lastUpdated.
C13_EmptyDatasetFailsOrSentinel ==
    (/\ Returned("getDatasets")
     /\ catalogFile.state = "ok"
     /\ EmptyDatasetPositions(catalogFile.doc) # {}) =>
        \/ ~result.ok
        \/ \A k \in EmptyDatasetPositions(catalogFile.doc) :
               OwnField(result.value.v[k], "lastUpdated") \in {JSNumber(0), JSNull}

\* C14: every lookup built on loadCatalogData fails with the not-found
\* error of the file system when the snapshot file is absent and with the
\* syntax error of JSON.parse when either decode stage rejects the content;
\* the two errors differ and no lookup returns a value in their place.
C14_LoadFailuresPropagate ==
    (/\ call.fn \in {"getProjectKeys", "getDatasets", "getDatasetByName", "getDatasetNames"}
     /\ result # NoResult) =>
        /\ catalogFile.state = "absent" => result = Throw("ENOENT")
        /\ catalogFile.state \in {"invalid-outer", "invalid-inner", "single-encoded"}
              => result = Throw("SyntaxError")
        /\ Throw("ENOENT") # Throw("SyntaxError")

\* A lookup has failed on an absent snapshot file.
C14_Witness ==
    /\ Returned("getDatasets")
    /\ catalogFile.state = "absent"
    /\ ~result.ok

\* The sum of the tableCount of the datasets at the positions S, taken in
\* no particular order.
RECURSIVE TableCountOver(_, _)
TableCountOver(datasets, S) ==
    IF S = {} THEN 0
    ELSE LET k == CHOOSE x \in S : TRUE
         IN OwnField(datasets[k], "tableCount").n + TableCountOver(datasets, S \ {k})

Rearrangements(q) == {[i \in 1..Len(q) |-> q[f[i]]] : f \in Permutations(1..Len(q))}

\* C16: getTotalTableCount returns the sum of tableCount over the given
\* datasets; every rearrangement of the sequence gives the same result, the
\* empty sequence gives 0, and the result is never negative for the views
\* that getDatasets builds.
C16_TableCountIsOrderFreeSum ==
    Returned("getTotalTableCount") =>
        /\ result = Return(JSNumber(TableCountOver(call.datasets.v, 1..Len(call.datasets.v))))
        /\ \A q \in Rearrangements(call.datasets.v) : getTotalTableCount(JSArray(q)) = result
        /\ Len(call.datasets.v) = 0 => result = Return(JSNumber(0))
        /\ result.value.n >= 0

\* The count has been taken over three datasets with 0, 1 and 2 tables.
C16_Witness ==
    /\ Returned("getTotalTableCount")
    /\ Len(call.datasets.v) = 3
    /\ {OwnField(call.datasets.v[k], "tableCount").n : k \in 1..3} = {0, 1, 2}
    /\ result = Return(JSNumber(3))

\* The number of own keys of the schemas of the tables at the positions S.
RECURSIVE ColumnsOver(_, _)
ColumnsOver(tables, S) ==
    IF S = {} THEN 0
    ELSE LET k == CHOOSE x \in S : TRUE
         IN Len(OwnField(tables[k], "schema").v) + ColumnsOver(tables, S \ {k})

\* C17: getTotalColumns returns the sum over the tables of the number of
\* columns of each table's schema, and 0 for the empty sequence.
C17_TotalColumnsIsSum ==
    Returned("getTotalColumns") =>
        /\ result = Return(JSNumber(ColumnsOver(call.tables.v, 1..Len(call.tables.v))))
        /\ Len(call.tables.v) = 0 => result = Return(JSNumber(0))

\* The columns of a table of 3 and a table of 5 columns have been counted.
C17_Witness ==
    /\ Returned("getTotalColumns")
    /\ Len(call.tables.v) = 2
    /\ Len(OwnField(call.tables.v[1], "schema").v) = 3
    /\ Len(OwnField(call.tables.v[2], "schema").v) = 5
    /\ result = Return(JSNumber(8))

HasText(info) ==
    /\ HasOwn(info, "description")
    /\ OwnField(info, "description").t = "string"
    /\ Len(OwnField(info, "description").v) > 0

SemDescricao == JSString(<<"Sem descri", "c-cedilla", "a-tilde", "o">>)

\* entry is the formatted column of the schema entry of that name.
IsFormattedColumnOf(columnName, columnInfo, entry) ==
    /\ entry.t = "object"
    /\ ObjectKeys(entry) = <<"name", "type", "description">>
    /\ OwnField(entry, "name") = JSString(<<columnName>>)
    /\ OwnField(entry, "type") = OwnField(columnInfo, "type")
    /\ OwnField(entry, "description") =
           (IF HasText(columnInfo) THEN OwnField(columnInfo, "description") ELSE SemDescricao)

\* C18: formatSchema emits one formatted column per entry of the schema, in
\* the order of the entries, each with the column name and type; the
\* description is the source description when present and non-empty, and
\* the placeholder Sem descricao when it is missing or empty.
C18_OneFormattedColumnPerEntry ==
    Returned("formatSchema") =>
        /\ result.ok
        /\ result.value.t = "array"
        /\ Len(result.value.v) = Len(call.schema.v)
        /\ \A i \in 1..Len(call.schema.v) :
               IsFormattedColumnOf(call.schema.v[i].key, call.schema.v[i].value, result.value.v[i])

\* A schema of two columns, c2 before c1, one with an empty and one with a
\* missing description, has been formatted.
C18_Witness ==
    /\ Returned("formatSchema")
    /\ ObjectKeys(call.schema) = <<"c2", "c1">>
    /\ ~HasOwn(call.schema.v[1].value, "description")
    /\ Get(call.schema.v[2].value, "description") = JSString(<<>>)
    /\ OwnField(result.value.v[2], "description") = SemDescricao

\* C19: prepareDatasetTablesForRender returns one entry per input table, in
\* input order; the entry has the table's name, schemaEntries equal to
\* formatSchema of the table's schema, and columnCount equal to the length
\* of schemaEntries, the number of columns of the schema.
C19_RenderDataPerTable ==
    Returned("prepareDatasetTablesForRender") =>
        /\ result.ok
        /\ result.value.t = "array"
        /\ Len(result.value.v) = Len(call.tables.v)
        /\ \A i \in 1..Len(call.tables.v) :
               LET table == call.tables.v[i]
                   entry == result.value.v[i]
               IN /\ OwnField(entry, "name") = OwnField(table, "name")
                  /\ Return(OwnField(entry, "schemaEntries")) = formatSchema(OwnField(table, "schema"))
                  /\ OwnField(entry, "columnCount") = JSNumber(Len(OwnField(entry, "schemaEntries").v))
                  /\ OwnField(entry, "columnCount") = JSNumber(Len(OwnField(table, "schema").v))

\* Two tables of different names and column counts have been prepared.
C19_Witness ==
    /\ Returned("prepareDatasetTablesForRender")
    /\ Len(call.tables.v) = 2
    /\ OwnField(call.tables.v[1], "name") = JSString(<<"t2">>)
    /\ OwnField(call.tables.v[2], "name") = JSString(<<"t1">>)
    /\ OwnField(result.value.v[1], "columnCount") = JSNumber(5)
    /\ OwnField(result.value.v[2], "columnCount") = JSNumber(0)

\* r is a list of two {value, label} pairs with these values.
IsStatsPair(r, first, second) ==
    /\ r.ok
    /\ r.value.t = "array"
    /\ Len(r.value.v) = 2
    /\ \A k \in 1..2 : /\ ObjectKeys(r.value.v[k]) = <<"value", "label">>
                       /\ OwnField(r.value.v[k], "label").t = "string"
    /\ OwnField(r.value.v[1], "value") = first
    /\ OwnField(r.value.v[2], "value") = second

\* The document with the one project p1 and its one dataset sales, of two
\* tables of 3 and 5 columns.
OneDatasetDocument ==
    JSObject(<< [key |-> "p1",
                 value |-> JSObject(<< [key |-> "sales", value |-> DatasetRaw("p1", "sales")] >>)] >>)

\* C20: getHomePageStats and getDatasetsPageStats return two {value, label}
\* pairs, the number of entries of getDatasets and getTotalTableCount of
\* those entries; getDatasetPageStats returns two pairs, the number of
\* tables and getTotalColumns of the tables; for one project with one
\* dataset of two tables of 3 and 5 columns the values are 1, 2 and 8.
C20_StatsComposeAggregates ==
    /\ (/\ call.fn \in {"getHomePageStats", "getDatasetsPageStats"}
        /\ result # NoResult
        /\ catalogFile.state = "ok") =>
           LET datasets == getDatasets(catalogFile, catalogFile).value
           IN /\ IsStatsPair(result, JSNumber(Len(datasets.v)), getTotalTableCount(datasets).value)
              /\ catalogFile.doc = OneDatasetDocument =>
                     IsStatsPair(result, JSNumber(1), JSNumber(2))
    /\ Returned("getDatasetPageStats") =>
           /\ IsStatsPair(result, JSNumber(Len(call.tables.v)), getTotalColumns(call.tables).value)
           /\ call.tables = OwnField(DatasetRaw("p1", "sales"), "tables") =>
                  IsStatsPair(result, JSNumber(2), JSNumber(8))

\* The statistics of the dataset of two tables of 3 and 5 columns have been
\* built.
C20_Witness ==
    /\ Returned("getDatasetPageStats")
    /\ call.tables = OwnField(DatasetRaw("p1", "sales"), "tables")
    /\ IsStatsPair(result, JSNumber(2), JSNumber(8))

(***************************************************************************)
(* Lookups of one process.                                                 *)
(***************************************************************************)
Alphabetical == <<"constructor", "geo", "sales">>

AlphabeticalPosition(name) == CHOOSE k \in 1..Len(Alphabetical) : JSString(<<Alphabetical[k]>>) = name

\* r is the list of the views of the datasets of the document in
\* alphabetical order of the names.
IsSortedDatasetsOf(doc, r) ==
    /\ r.ok
    /\ r.value.t = "array"
    /\ Len(r.value.v) = DatasetsBefore(doc, Len(doc.v) + 1)
    /\ \A i \in 1..Len(doc.v) : \A j \in 1..Len(doc.v[i].value.v) :
           \E k \in 1..Len(r.value.v) : IsViewOf(doc, i, j, r.value.v[k])
    /\ \A k \in 1..(Len(r.value.v) - 1) :
           AlphabeticalPosition(OwnField(r.value.v[k], "name"))
               <= AlphabeticalPosition(OwnField(r.value.v[k + 1], "name"))

\* r is the dataset of that name of the first project that has it, or the
\* not-found error.
IsDatasetByNameOf(doc, name, r) ==
    IF ProjectsWithDataset(doc, name) = {} THEN r = Throw(NotFoundError)
    ELSE LET first == Min(ProjectsWithDataset(doc, name))
             dataset == OwnDataset(doc, first, name)
         IN r = Return(JSObject(<<
                [key |-> "name", value |-> JSString(<<name>>)],
                [key |-> "project", value |-> JSString(<<doc.v[first].key>>)],
                [key |-> "description", value |-> OwnField(dataset, "description")],
                [key |-> "tables", value |-> OwnField(dataset, "tables")] >>))

\* r is the result of the call c for the snapshot file.
IsResultFor(file, c, r) ==
    IF file.state = "absent" THEN r = Throw("ENOENT")
    ELSE CASE c.fn = "getProjectKeys" ->
                r = Return(JSArray([i \in 1..Len(file.doc.v) |-> file.doc.v[i].key]))
           [] c.fn = "getDatasets" -> IsDatasetsOf(file.doc, r)
           [] c.fn = "getDatasetNames" -> IsDatasetNamesOf(file.doc, r)
           [] c.fn = "getDatasetsSorted" -> IsSortedDatasetsOf(file.doc, r)
           [] c.fn = "getDatasetByName" -> IsDatasetByNameOf(file.doc, c.datasetName, r)

\* C15: in any sequence of calls of getProjectKeys, getDatasets,
\* getDatasetByName, getDatasetNames and getDatasetsSorted, each completed
\* call returns the result for the snapshot that is current when it is
\* called, whatever was called before on whatever snapshot, and no call
\* changes the snapshot file.
C15_NoStateBetweenCalls ==
    /\ [](call.fn \in SessionFunctions => IsResultFor(call.snapshot, call, result))
    /\ [][call' # call => catalogFile' = catalogFile]_vars

\* A second call has returned the sorted list of a snapshot that replaced
\* the one of the first call.
C15_Witness ==
    /\ call.fn = "getDatasetsSorted"
    /\ call.calls = 2
    /\ call.before # call.snapshot
    /\ call.before.state = "ok"
    /\ Len(call.before.doc.v) = 2
    /\ call.snapshot.state = "ok"
    /\ Len(call.snapshot.doc.v) = 2
    /\ result.ok

(***************************************************************************)
(* Further properties of the nested-column filter.                         *)
(***************************************************************************)
\* Column c is a nested field of column p: c starts with p followed by a
\* dot.
IsNestedFieldOf(c, p) ==
    /\ Len(c) > Len(p)
    /\ SubSeq(c, 1, Len(p) + 1) = p \o <<".">>

\* C29: for every input the output of the filter has no two columns p and c
\* such that c is a nested field of p, at any depth (a.b.c does not survive
\* together with a.b).
C29_NoNestedPairSurvives ==
    (Returned("filterNestedColumns") /\ call.pass = 1) =>
        \A i, j \in 1..Len(result.value.v) :
            ~IsNestedFieldOf(result.value.v[i], result.value.v[j])

\* The elements of q at the positions S, in order.
AtPositions(q, S) ==
    LET positions == SelectSeq([i \in 1..Len(q) |-> i], LAMBDA i : i \in S)
    IN [k \in 1..Len(positions) |-> q[positions[k]]]

\* C30: for every non-empty sequence of column names the filter returns a
\* non-empty subsequence of the input, and the query generated for a
\* non-empty selection lists the columns of such a subsequence between
\* SELECT and FROM.
C30_NonEmptySelectionKeepsAColumn ==
    /\ (Returned("filterNestedColumns") /\ call.pass = 1 /\ Len(call.columnNames.v) > 0) =>
           /\ Len(result.value.v) > 0
           /\ \E S \in SUBSET (1..Len(call.columnNames.v)) :
                  result.value.v = AtPositions(call.columnNames.v, S)
    /\ (Returned("generateQuery") /\ ~EmptySelection(call)) =>
           /\ result.ok
           /\ \E S \in (SUBSET (1..Len(call.columnNames.v))) \ {{}} :
                  LET listed == AtPositions(call.columnNames.v, S)
                      n == Len(listed)
                  IN Split(result.value.v, "\n") =
                         << <<"S", "E", "L", "E", "C", "T">> >>
                         \o [i \in 1..n |-> <<" ", " ">> \o listed[i]
                                               \o (IF i < n THEN <<",">> ELSE <<>>)]
                         \o << FromLine(call), Limit100Line >>

\* The filter has removed columns of a selection of three and kept one.
C30_Witness ==
    /\ Returned("filterNestedColumns") /\ call.pass = 1
    /\ Len(call.columnNames.v) = 3
    /\ Len(result.value.v) = 1

\* C28: when catalog.json is replaced by another well-formed snapshot while
\* a call of getDatasets, getDatasetByName or getDatasetNames is in
\* progress, the result of the call is the result for the old snapshot or
\* the result for the new one (in particular the call does not fail where
\* neither of these fails).
C28_OneConsistentSnapshot ==
    ("phase" \in DOMAIN call /\ call.phase = "done") =>
        \/ IsResultFor(call.snapshot, call, result)
        \/ IsResultFor(catalogFile, call, result)

(***************************************************************************)
(* Pages in the browser.                                                   *)
(***************************************************************************)
\* Every timer whose delay has passed has run, and no operation is waiting.
Settled == DueTimers = {} /\ pending = <<>>

\* C22: after any sequence of successful copy clicks on the copy button,
\* also clicks made while the feedback of an earlier click is shown, once
\* 2000 ms have passed since the last click the content of the button is
\* its original content, Copiar with the copy icon.
C22_CopyFeedbackRestored ==
    (/\ page.kind = "copy-button"
     /\ page.clicks > 0
     /\ page.alerts = 0
     /\ Settled
     /\ now >= page.lastClick + 2000) =>
        page.innerHTML = CopyHTML

\* The text as displayed: white space at the start and at the end of the
\* content of the element is not rendered.
Shown(text) == Trim(text)

\* The element shows the message of its latest call until the duration has
\* elapsed since that call, and from then on the text it had before the
\* first call.
TemporaryThenRestored(element, duration) ==
    element.calls > 0 =>
        /\ now < element.lastCall + duration => element.textContent = element.lastMessage
        /\ (Settled /\ now >= element.lastCall + duration) =>
               Shown(element.textContent) = Shown(element.initialText)

\* C23: after any sequence of setTemporaryLabel or updateFeedback calls on
\* the same element, for any initial text including the empty text, the
\* element shows the message of the latest call until 2000 ms (4000 ms for
\* updateFeedback) have elapsed since that call, and from then on the text
\* it had before the first call; no restore of an earlier call runs after a
\* later call.
C23_TemporaryMessageRestored ==
    page.kind = "colab-card" =>
        /\ TemporaryThenRestored(page.label, 2000)
        /\ TemporaryThenRestored(page.feedback, 4000)


\* C27: over DOMContentLoaded, astro:page-load and explicit
\* window.initLucideIcons calls in any order, events that arrive while an
\* injected script is still downloading included, the script element of the
\* Lucide CDN is appended to the document at most once.
C27_LucideScriptAppendedOnce ==
    page.kind = "lucide" => page.scripts <= 1

\* C24: after init and after any change events on column checkboxes and on
\* select-all checkboxes, the select-all checkbox of every table is checked
\* exactly when the table has at least one column checkbox and all of them
\* are checked, and indeterminate exactly when some but not all are checked.
C24_SelectAllConsistent ==
    (page.kind = "columns" /\ page.ready) =>
        \A t \in PageTables :
            LET table == page.tables[t]
                some == CheckedBoxes(table) # {}
                all == CheckedBoxes(table) = DOMAIN table.columns
            IN /\ table.selectAll.checked <=> (Len(table.columns) >= 1 /\ all)
               /\ table.selectAll.indeterminate <=> (some /\ ~all)

\* C25: after any clicks on the query button, the Python button and the
\* close button of a table, its container holds at most one preview window,
\* and the code shown by a present window and the text that its copy button
\* copies are those of the most recent generation.
C25_OnePreviewOfLatestGeneration ==
    page.kind = "preview" =>
        /\ Len(page.windows) <= 1
        /\ \A i \in 1..Len(page.windows) :
            /\ TextContent(page.windows[i].innerHTML) = page.latest
            /\ page.windows[i].copies = page.latest

C25_Witness ==
    /\ page.kind = "preview"
    /\ page.generations >= 2
    /\ Len(page.windows) = 1
    /\ page.windows[1].title = TitlePython

\* C26: when a generation is requested before the highlighting of an
\* earlier one has completed, then once every completion has run, in any
\* order, the preview displayed holds the code of the latest request,
\* highlighted or as escaped plain text.
C26_LateHighlightingShowsLatestCode ==
    (page.kind = "preview" /\ page.overlapped /\ pending = <<>>) =>
        \A i \in 1..Len(page.windows) :
            /\ TextContent(page.windows[i].innerHTML) = page.latest
            /\ page.windows[i].innerHTML \in
                   {HighlightedHTML([code |-> page.latest, lang |-> lang], page.highlighter) :
                        lang \in {"sql", "python"}}

C26_Witness ==
    /\ page.kind = "preview"
    /\ page.overlapped
    /\ pending = <<>>
    /\ Len(page.windows) = 1
    /\ page.windows[1].innerHTML.markup = "shiki"

\* C21: over any highlight requests, several before the engine is ready
\* included, createHighlighterCore is called exactly once and every request
\* awaits that one instance.
C21_OneHighlighter ==
    page.kind = "preview" =>
        /\ page.created = 1
        /\ page.awaited \subseteq {1}
        /\ \A r \in 1..Len(pending) : pending[r].awaits = 1

C21_Witness ==
    /\ page.kind = "preview"
    /\ page.highlighter = "pending"
    /\ Len(pending) >= 2

====
